---- MODULE Spec2Model ----
(***************************************************************************)
(* A model of the agari Riichi Mahjong hand evaluator: the hand            *)
(* decomposer (hand.rs), the shanten / ukeire calculator (shanten.rs),     *)
(* the wait classifier (wait.rs), the yaku detector (yaku.rs) and the fu   *)
(* computation (scoring.rs).  Every component is a pure function; the      *)
(* state machine builds the inputs (tile counts, called melds, game        *)
(* context) step by step and applies the functions to them.                *)
(***************************************************************************)
EXTENDS Integers, Sequences, FiniteSets, TLC

(***************************************************************************)
(* tile.rs: Suit, Honor, Tile                                              *)
(***************************************************************************)
Suits == {"Man", "Pin", "Sou"}

East == 0
South == 1
West == 2
North == 3
White == 4
Green == 5
Red == 6

Honors == East..Red

\* Tile::suited
Suited(suit, value) == [suit |-> suit, value |-> value]

\* Tile::honor; the honor kind is kept in the value field
Honor(honor) == [suit |-> "Honor", value |-> honor]

Tile == {Suited(s, v) : s \in Suits, v \in 1..9} \cup {Honor(h) : h \in Honors}

\* the absent tile of Option<Tile>
None == [suit |-> "None", value |-> 0]

is_honor(t) == t.suit = "Honor"

is_simple(t) == (~is_honor(t)) /\ t.value >= 2 /\ t.value <= 8

is_terminal(t) == (~is_honor(t)) /\ (t.value = 1 \/ t.value = 9)

is_terminal_or_honor(t) == is_honor(t) \/ t.value = 1 \/ t.value = 9

is_dragon(t) == is_honor(t) /\ t.value \in {White, Green, Red}

is_wind(t) == is_honor(t) /\ t.value \in {East, South, West, North}

is_green(t) ==
  \/ t.suit = "Sou" /\ t.value \in {2, 3, 4, 6, 8}
  \/ is_honor(t) /\ t.value = Green

\* derive(Ord) on Suit: Man < Pin < Sou
SuitOrd(s) == CASE s = "Man" -> 0 [] s = "Pin" -> 1 [] OTHER -> 2

\* derive(Ord) on Tile: every Suited tile (by suit, then value) before every
\* Honor tile (by honor)
TileOrd(t) == IF is_honor(t) THEN 27 + t.value ELSE 9 * SuitOrd(t.suit) + (t.value - 1)

KOKUSHI_TILES ==
  << Suited("Man", 1), Suited("Man", 9), Suited("Pin", 1), Suited("Pin", 9),
     Suited("Sou", 1), Suited("Sou", 9), Honor(East), Honor(South), Honor(West),
     Honor(North), Honor(White), Honor(Green), Honor(Red) >>

(***************************************************************************)
(* parse.rs: TileCounts = HashMap<Tile, u8>, a function whose domain is    *)
(* the set of keys                                                         *)
(***************************************************************************)
EmptyCounts == [t \in {} |-> 0]

\* counts.get(&tile).copied().unwrap_or(0)
Get(counts, t) == IF t \in DOMAIN counts THEN counts[t] ELSE 0

\* *counts.entry(tile).or_insert(0) += 1
Increment(counts, t) ==
  [u \in (DOMAIN counts) \cup {t} |-> IF u = t THEN Get(counts, t) + 1 ELSE counts[u]]

\* *counts.get_mut(&tile).unwrap() -= n
Decrement(counts, t, n) == [counts EXCEPT ![t] = @ - n]

\* counts.remove(&tile)
Remove(counts, t) == [u \in (DOMAIN counts) \ {t} |-> counts[u]]

\* counts.retain(|_, &mut c| c > 0)
Retain(counts) == [u \in {k \in DOMAIN counts : counts[k] > 0} |-> counts[u]]

RECURSIVE SumOver(_, _)
SumOver(counts, keys) ==
  IF keys = {} THEN 0
  ELSE LET k == CHOOSE x \in keys : TRUE
       IN  counts[k] + SumOver(counts, keys \ {k})

\* counts.values().sum()
Total(counts) == SumOver(counts, DOMAIN counts)

\* the keys of a map as a list in ascending tile order
RECURSIVE SortedKeys(_)
SortedKeys(keys) ==
  IF keys = {} THEN << >>
  ELSE LET k == CHOOSE x \in keys : \A y \in keys : TileOrd(x) <= TileOrd(y)
       IN  <<k>> \o SortedKeys(keys \ {k})

(***************************************************************************)
(* hand.rs: KanType, Meld, HandStructure                                   *)
(***************************************************************************)
\* KanType is one of "Closed", "Open", "Added"
\* Meld::Shuntsu(tile, open)
Shuntsu(t, open) == [kind |-> "Shuntsu", tile |-> t, open |-> open, kan_type |-> "None"]

\* Meld::Koutsu(tile, open)
Koutsu(t, open) == [kind |-> "Koutsu", tile |-> t, open |-> open, kan_type |-> "None"]

\* Meld::Kan(tile, kan_type)
Kan(t, kan_type) == [kind |-> "Kan", tile |-> t, open |-> FALSE, kan_type |-> kan_type]

\* KanType::is_open
kan_is_open(kan_type) == kan_type \in {"Open", "Added"}

\* Meld::is_open
is_open(m) == IF m.kind = "Kan" THEN kan_is_open(m.kan_type) ELSE m.open

is_triplet_or_kan(m) == m.kind \in {"Koutsu", "Kan"}

is_sequence(m) == m.kind = "Shuntsu"

\* HandStructure::Standard { melds, pair }
Standard(melds, pair) == [kind |-> "Standard", melds |-> melds, pair |-> pair, pairs |-> << >>]

\* HandStructure::Chiitoitsu { pairs }
Chiitoitsu(pairs) == [kind |-> "Chiitoitsu", melds |-> << >>, pair |-> None, pairs |-> pairs]

\* HandStructure::Kokushi { pair }
Kokushi(pair) == [kind |-> "Kokushi", melds |-> << >>, pair |-> pair, pairs |-> << >>]

\* melds.sort_by_key(|m| m.tile()): a stable sort on the tile alone
RECURSIVE InsertByTile(_, _)
InsertByTile(sorted, m) ==
  IF sorted = << >> THEN <<m>>
  ELSE IF TileOrd(sorted[Len(sorted)].tile) <= TileOrd(m.tile) THEN Append(sorted, m)
  ELSE Append(InsertByTile(SubSeq(sorted, 1, Len(sorted) - 1), m), sorted[Len(sorted)])

RECURSIVE SortByTile(_)
SortByTile(melds) ==
  IF melds = << >> THEN << >>
  ELSE InsertByTile(SortByTile(SubSeq(melds, 1, Len(melds) - 1)), melds[Len(melds)])

\* format!("{:?}", ..) of a tile, as a key whose order is the order of the strings:
\* "Honor(..)" sorts before "Suited { .. }", honors by their names
HonorDebugOrd(h) ==
  CASE h = East -> 0 [] h = Green -> 1 [] h = North -> 2 [] h = Red -> 3
    [] h = South -> 4 [] h = West -> 5 [] OTHER -> 6

TileDebugKey(t) ==
  IF is_honor(t) THEN <<0, HonorDebugOrd(t.value), 0>>
  ELSE <<1, SuitOrd(t.suit), t.value>>

\* "Kan(" < "Koutsu(" < "Shuntsu("; "false" < "true"; "Added" < "Closed" < "Open"
MeldDebugKey(m) ==
  LET k == CASE m.kind = "Kan" -> 0 [] m.kind = "Koutsu" -> 1 [] OTHER -> 2
      f == IF m.kind = "Kan"
           THEN (CASE m.kan_type = "Added" -> 0 [] m.kan_type = "Closed" -> 1 [] OTHER -> 2)
           ELSE (IF m.open THEN 1 ELSE 0)
  IN  <<k>> \o TileDebugKey(m.tile) \o <<f>>

RECURSIVE MeldsDebugKey(_)
MeldsDebugKey(melds) ==
  IF melds = << >> THEN << >>
  ELSE MeldDebugKey(Head(melds)) \o MeldsDebugKey(Tail(melds))

RECURSIVE TilesDebugKey(_)
TilesDebugKey(tiles) ==
  IF tiles = << >> THEN << >>
  ELSE TileDebugKey(Head(tiles)) \o TilesDebugKey(Tail(tiles))

\* "Chiitoitsu {" < "Kokushi {" < "Standard {"
StructureDebugKey(s) ==
  CASE s.kind = "Chiitoitsu" -> <<0>> \o TilesDebugKey(s.pairs)
    [] s.kind = "Kokushi" -> <<1>> \o TileDebugKey(s.pair)
    [] OTHER -> <<2>> \o MeldsDebugKey(s.melds) \o TileDebugKey(s.pair)

\* a.cmp(&b) <= Equal on the keys
RECURSIVE LexLeq(_, _)
LexLeq(a, b) ==
  IF a = << >> THEN TRUE
  ELSE IF b = << >> THEN FALSE
  ELSE IF Head(a) < Head(b) THEN TRUE
  ELSE IF Head(a) > Head(b) THEN FALSE
  ELSE LexLeq(Tail(a), Tail(b))

\* results.sort_by(|a, b| format!("{:?}", a).cmp(&format!("{:?}", b)))
RECURSIVE InsertByDebug(_, _)
InsertByDebug(sorted, s) ==
  IF sorted = << >> THEN <<s>>
  ELSE IF LexLeq(StructureDebugKey(sorted[Len(sorted)]), StructureDebugKey(s))
       THEN Append(sorted, s)
  ELSE Append(InsertByDebug(SubSeq(sorted, 1, Len(sorted) - 1), s), sorted[Len(sorted)])

RECURSIVE SortByDebug(_)
SortByDebug(results) ==
  IF results = << >> THEN << >>
  ELSE InsertByDebug(SortByDebug(SubSeq(results, 1, Len(results) - 1)), results[Len(results)])

\* results.dedup(): drops an element equal to the one before it
RECURSIVE Dedup(_)
Dedup(results) ==
  IF Len(results) <= 1 THEN results
  ELSE LET rest == Dedup(SubSeq(results, 1, Len(results) - 1))
           last == results[Len(results)]
       IN  IF rest[Len(rest)] = last THEN rest ELSE Append(rest, last)

\* sub_result.insert(0, meld) for every sub_result
RECURSIVE PrependAll(_, _)
PrependAll(m, lists) ==
  IF lists = << >> THEN << >>
  ELSE << <<m>> \o Head(lists) >> \o PrependAll(m, Tail(lists))

\* find_all_meld_combinations with the sequence tried only when the first tile
\* makes no triplet
RECURSIVE find_all_meld_combinations_TripletOnly(_, _)
find_all_meld_combinations_TripletOnly(counts0, needed) ==
  LET counts == Retain(counts0)
  IN  IF needed = 0 THEN (IF DOMAIN counts = {} THEN << << >> >> ELSE << >>)
      ELSE IF DOMAIN counts = {} THEN << >>
      ELSE
        LET tile == CHOOSE x \in DOMAIN counts :
                      \A y \in DOMAIN counts : TileOrd(x) <= TileOrd(y)
            next1 == Suited(tile.suit, tile.value + 1)
            next2 == Suited(tile.suit, tile.value + 2)
            has_seq == Get(counts, next1) >= 1 /\ Get(counts, next2) >= 1
        IN  IF counts[tile] >= 3
            THEN PrependAll(Koutsu(tile, FALSE),
                   find_all_meld_combinations_TripletOnly(Decrement(counts, tile, 3),
                                                          needed - 1))
            ELSE IF (~is_honor(tile)) /\ tile.value <= 7 /\ has_seq
            THEN PrependAll(Shuntsu(tile, FALSE),
                   find_all_meld_combinations_TripletOnly(
                     Decrement(Decrement(Decrement(counts, tile, 1), next1, 1), next2, 1),
                     needed - 1))
            ELSE << >>

\* find_all_meld_combinations: every way to form exactly `needed` melds
RECURSIVE find_all_meld_combinations(_, _)
find_all_meld_combinations(counts0, needed) ==
  LET counts == Retain(counts0)
  IN  IF needed = 0 THEN (IF DOMAIN counts = {} THEN << << >> >> ELSE << >>)
      ELSE IF DOMAIN counts = {} THEN << >>
      ELSE
        LET tile == CHOOSE x \in DOMAIN counts :
                      \A y \in DOMAIN counts : TileOrd(x) <= TileOrd(y)
            count == counts[tile]
            triplets ==
              IF count >= 3
              THEN PrependAll(Koutsu(tile, FALSE),
                     find_all_meld_combinations(Decrement(counts, tile, 3), needed - 1))
              ELSE << >>
            next1 == Suited(tile.suit, tile.value + 1)
            next2 == Suited(tile.suit, tile.value + 2)
            has_seq == Get(counts, next1) >= 1 /\ Get(counts, next2) >= 1
            sequences ==
              IF (~is_honor(tile)) /\ tile.value <= 7 /\ has_seq
              THEN PrependAll(Shuntsu(tile, FALSE),
                     find_all_meld_combinations(
                       Decrement(Decrement(Decrement(counts, tile, 1), next1, 1), next2, 1),
                       needed - 1))
              ELSE << >>
        IN  triplets \o sequences

\* is_chiitoitsu that takes four copies of a tile as two pairs
is_chiitoitsu_FourAsTwoPairs(counts) ==
  Total(counts) = 14 /\ \A t \in DOMAIN counts : counts[t] \in {2, 4}

\* is_chiitoitsu
is_chiitoitsu(counts) ==
  Cardinality(DOMAIN counts) = 7 /\ \A t \in DOMAIN counts : counts[t] = 2

\* check_kokushi: the pair tile, or None
check_kokushi(counts) ==
  IF Total(counts) # 14 THEN None
  ELSE IF \E i \in 1..13 : Get(counts, KOKUSHI_TILES[i]) < 1 THEN None
  ELSE IF \E t \in DOMAIN counts : ~is_terminal_or_honor(t) THEN None
  ELSE LET twos == {i \in 1..13 : Get(counts, KOKUSHI_TILES[i]) = 2}
           more == {i \in 1..13 : Get(counts, KOKUSHI_TILES[i]) > 2}
           first2 == CHOOSE i \in twos : \A j \in twos : i <= j
       IN  \* the scan returns None at the second pair or at the first count above 2
           IF Cardinality(twos) >= 2 \/ more # {} THEN None
           ELSE IF twos = {} THEN None
           ELSE KOKUSHI_TILES[first2]

\* the pair loop shared by decompose_hand and decompose_hand_with_melds:
\* for every key with count >= 2, the Standard structures with that pair
RECURSIVE StandardResults(_, _, _, _)
StandardResults(counts, pair_tiles, called_melds, melds_needed) ==
  IF pair_tiles = << >> THEN << >>
  ELSE
    LET pair_tile == Head(pair_tiles)
        removed == Decrement(counts, pair_tile, 2)
        remaining == IF removed[pair_tile] = 0 THEN Remove(removed, pair_tile) ELSE removed
        meld_combinations == find_all_meld_combinations(remaining, melds_needed)
        here == [i \in 1..Len(meld_combinations) |->
                   Standard(SortByTile(called_melds \o meld_combinations[i]), pair_tile)]
    IN  (IF counts[pair_tile] >= 2 THEN here ELSE << >>)
          \o StandardResults(counts, Tail(pair_tiles), called_melds, melds_needed)

\* decompose_hand
decompose_hand(counts) ==
  LET kokushi == IF check_kokushi(counts) # None
                 THEN << Kokushi(check_kokushi(counts)) >> ELSE << >>
      chiitoi == IF is_chiitoitsu(counts)
                 THEN << Chiitoitsu(SortedKeys(DOMAIN counts)) >> ELSE << >>
      standard == StandardResults(counts, SortedKeys(DOMAIN counts), << >>, 4)
  IN  Dedup(SortByDebug(kokushi \o chiitoi \o standard))

\* melds_needed = 4 - called_melds.len() as u32.  With more than four called
\* melds the subtraction overflows: the release build wraps to
\* 2^32 - (len - 4).  The wrapped value is only decremented and compared with
\* 0, at most once per three tiles, so it is carried as the largest integers
\* the checker has, 2^31 - (len - 4).
melds_needed(called_melds) ==
  IF Len(called_melds) <= 4 THEN 4 - Len(called_melds)
  ELSE 2147483647 - (Len(called_melds) - 5)

\* decompose_hand_with_melds with the called melds left out of the structures
decompose_hand_with_melds_NoCalled(hand_tiles, called_melds) ==
  Dedup(SortByDebug(
    StandardResults(hand_tiles, SortedKeys(DOMAIN hand_tiles), << >>,
                    melds_needed(called_melds))))

\* decompose_hand_with_melds
decompose_hand_with_melds(hand_tiles, called_melds) ==
  Dedup(SortByDebug(
    StandardResults(hand_tiles, SortedKeys(DOMAIN hand_tiles), called_melds,
                    melds_needed(called_melds))))

\* to_counts
RECURSIVE to_counts(_)
to_counts(tiles) ==
  IF tiles = << >> THEN EmptyCounts
  ELSE Increment(to_counts(SubSeq(tiles, 1, Len(tiles) - 1)), tiles[Len(tiles)])

(***************************************************************************)
(* shanten.rs                                                              *)
(***************************************************************************)
\* tile_to_index
tile_to_index(tile) ==
  IF is_honor(tile)
  THEN 27 + (CASE tile.value = East -> 0 [] tile.value = South -> 1
               [] tile.value = West -> 2 [] tile.value = North -> 3
               [] tile.value = White -> 4 [] tile.value = Green -> 5 [] OTHER -> 6)
  ELSE (CASE tile.suit = "Man" -> 0 [] tile.suit = "Pin" -> 9 [] OTHER -> 18)
         + (tile.value - 1)

\* index_to_tile
index_to_tile(idx) ==
  IF idx < 27
  THEN Suited(CASE idx \div 9 = 0 -> "Man" [] idx \div 9 = 1 -> "Pin" [] OTHER -> "Sou",
              (idx % 9) + 1)
  ELSE Honor(CASE idx - 27 = 0 -> East [] idx - 27 = 1 -> South [] idx - 27 = 2 -> West
               [] idx - 27 = 3 -> North [] idx - 27 = 4 -> White [] idx - 27 = 5 -> Green
               [] OTHER -> Red)

\* counts_to_array: the 34-entry array, indexed 0..33
counts_to_array(counts) ==
  [idx \in 0..33 |->
     IF \E t \in DOMAIN counts : tile_to_index(t) = idx
     THEN counts[CHOOSE t \in DOMAIN counts : tile_to_index(t) = idx]
     ELSE 0]

\* Each loop of shanten.rs is a recursive operator over the loop's state (its
\* counters and its working copy of the array).  An operator that reads an
\* argument more than once first names the argument's value with a bound
\* variable, as in  CHOOSE result \in {F(s) : s \in {state}} : TRUE,  which
\* is F(state).

\* tiles.iter().sum()
RECURSIVE ArraySum(_, _)
ArraySum(tiles, idx) ==
  CHOOSE sum \in
    {IF i > 33 THEN 0 ELSE tiles[i] + ArraySum(tiles, i + 1) : i \in {idx}} : TRUE

\* for i in first..=last { while a sequence starts at i { take it } }, on the
\* state [melds, remaining]
RECURSIVE TakeSequences(_, _, _)
TakeSequences(state, i, last) ==
  CHOOSE result \in
    {IF i > last THEN s
     ELSE IF s.remaining[i] >= 1 /\ s.remaining[i + 1] >= 1 /\ s.remaining[i + 2] >= 1
     THEN TakeSequences(
            [melds |-> s.melds + 1,
             remaining |-> [s.remaining EXCEPT ![i] = @ - 1, ![i + 1] = @ - 1,
                                               ![i + 2] = @ - 1]],
            i, last)
     ELSE TakeSequences(s, i + 1, last) : s \in {state}} : TRUE

\* for each count of the suit { while count >= 3 { take a triplet } }, on the
\* state [melds, remaining]
RECURSIVE TakeTriplets(_, _, _)
TakeTriplets(state, i, last) ==
  CHOOSE result \in
    {IF i > last THEN s
     ELSE IF s.remaining[i] >= 3
     THEN TakeTriplets([melds |-> s.melds + 1,
                        remaining |-> [s.remaining EXCEPT ![i] = @ - 3]], i, last)
     ELSE TakeTriplets(s, i + 1, last) : s \in {state}} : TRUE

\* extract_melds_sequences_first
extract_melds_sequences_first(tiles, start) ==
  TakeTriplets(TakeSequences([melds |-> 0, remaining |-> tiles], start, start + 6),
               start, start + 8)

\* extract_melds_triplets_first
extract_melds_triplets_first(tiles, start) ==
  TakeSequences(TakeTriplets([melds |-> 0, remaining |-> tiles], start, start + 8),
                start, start + 6)

\* one taatsu pass of count_suit_melds on the state [melds, taatsu, remaining];
\* gap = 0 takes pairs, gap = 1 adjacent tiles, gap = 2 kanchan
RECURSIVE TakeTaatsu(_, _, _, _)
TakeTaatsu(state, i, last, gap) ==
  CHOOSE result \in
    {IF i > last THEN s
     ELSE IF gap = 0 /\ s.remaining[i] >= 2
     THEN TakeTaatsu([s EXCEPT !.taatsu = @ + 1,
                               !.remaining = [s.remaining EXCEPT ![i] = @ - 2]],
                     i + 1, last, gap)
     ELSE IF gap > 0 /\ s.remaining[i] >= 1 /\ s.remaining[i + gap] >= 1
     THEN TakeTaatsu([s EXCEPT !.taatsu = @ + 1,
                               !.remaining = [s.remaining EXCEPT ![i] = @ - 1,
                                                                 ![i + gap] = @ - 1]],
                     i + 1, last, gap)
     ELSE TakeTaatsu(s, i + 1, last, gap) : s \in {state}} : TRUE

\* count_suit_melds, first pass: of the two orderings the one with more melds
BestExtraction(tiles, start) ==
  CHOOSE best \in
    {IF r1.melds >= r2.melds THEN r1 ELSE r2 :
       r1 \in {extract_melds_sequences_first(tiles, start)},
       r2 \in {extract_melds_triplets_first(tiles, start)}} : TRUE

\* count_suit_melds, second pass: pairs, then ryanmen/penchan, then kanchan
CountTaatsu(extraction, start) ==
  CHOOSE result \in
    {LET pairs == TakeTaatsu([melds |-> best.melds, taatsu |-> 0,
                              remaining |-> best.remaining], start, start + 8, 0)
         ryanmen == TakeTaatsu(pairs, start, start + 7, 1)
     IN  TakeTaatsu(ryanmen, start, start + 6, 2) : best \in {extraction}} : TRUE

\* count_suit_melds, last step: the suit's nine entries are copied back
CopySuit(tiles, start, counted) ==
  CHOOSE result \in
    {[melds |-> c.melds, taatsu |-> c.taatsu,
      tiles |-> [i \in 0..33 |-> IF i >= start /\ i < start + 9
                                 THEN c.remaining[i] ELSE t[i]]] :
       c \in {counted}, t \in {tiles}} : TRUE

\* count_suit_melds: melds and taatsu of one suit, and the array it leaves
count_suit_melds(tiles, start) ==
  CHOOSE result \in
    {CopySuit(t, start, CountTaatsu(BestExtraction(t, start), start)) :
       t \in {tiles}} : TRUE

\* the body of "for suit_start in [0, 9, 18]" on the state [tiles, melds, taatsu]
AddSuit(state, suit_start) ==
  CHOOSE result \in
    {[tiles |-> c.tiles, melds |-> state.melds + c.melds,
      taatsu |-> state.taatsu + c.taatsu] :
       c \in {count_suit_melds(state.tiles, suit_start)}} : TRUE

\* for suit_start in [0, 9, 18]
RECURSIVE CountSuits(_, _)
CountSuits(state, suit_starts) ==
  CHOOSE result \in
    {IF suit_starts = << >> THEN s
     ELSE CountSuits(AddSuit(s, Head(suit_starts)), Tail(suit_starts)) :
       s \in {state}} : TRUE

\* the honor loop of count_melds_and_taatsu
RECURSIVE CountHonors(_, _)
CountHonors(state, i) ==
  CHOOSE result \in
    {IF i > 33 THEN s
     ELSE LET m == IF s.tiles[i] >= 3 THEN 1 ELSE 0
              left == s.tiles[i] - 3 * m
              t == IF left >= 2 THEN 1 ELSE 0
          IN  CountHonors([tiles |-> [s.tiles EXCEPT ![i] = left - 2 * t],
                           melds |-> s.melds + m, taatsu |-> s.taatsu + t], i + 1) :
       s \in {state}} : TRUE

\* count_melds_and_taatsu
count_melds_and_taatsu(tiles) ==
  CountHonors(CountSuits([tiles |-> tiles, melds |-> 0, taatsu |-> 0], << 0, 9, 18 >>), 27)

Min(a, b) == IF a <= b THEN a ELSE b

Max(a, b) == IF a >= b THEN a ELSE b

\* u8::saturating_sub
saturating_sub(a, b) == IF a >= b THEN a - b ELSE 0

\* calculate_shanten_value_with_called
calculate_shanten_value_with_called(melds, taatsu, has_pair, called_melds, tile_deficit) ==
  LET total_melds == melds + called_melds
      max_useful_taatsu == saturating_sub(4, total_melds)
      useful_taatsu == Min(taatsu, max_useful_taatsu)
      base == 8 - 2 * Min(total_melds, 4) - useful_taatsu - (IF has_pair THEN 1 ELSE 0)
      total_blocks == Min(total_melds, 4) + useful_taatsu
      shanten == IF total_blocks > 4 THEN base + (total_blocks - 4) ELSE base
  IN  IF total_melds >= 4 /\ has_pair /\ tile_deficit = 0 THEN -1
      ELSE IF shanten >= 0 THEN Max(shanten, tile_deficit)
      ELSE shanten

\* "Without pair" of the standard shanten: the value found with no pair taken
ShantenWithoutPair(tiles, called_melds, tile_deficit) ==
  CHOOSE shanten \in
    {calculate_shanten_value_with_called(mt.melds, mt.taatsu, FALSE,
                                         called_melds, tile_deficit) :
       mt \in {count_melds_and_taatsu(tiles)}} : TRUE

\* the loop "try extracting each possible pair" of the standard shanten: the
\* shanten value found with the pair taken from tile i
ShantenWithPair(tiles, i, called_melds, tile_deficit) ==
  CHOOSE shanten \in
    {calculate_shanten_value_with_called(mt.melds, mt.taatsu, TRUE,
                                         called_melds, tile_deficit) :
       mt \in {count_melds_and_taatsu([tiles EXCEPT ![i] = @ - 2])}} : TRUE

\* the least element of a non-empty set of integers
Least(values) == CHOOSE v \in values : \A w \in values : v <= w

\* best_shanten of the standard shanten: the minimum of 8, of the value
\* without a pair and of the values with each possible pair
BestShanten(tiles, called_melds, tile_deficit) ==
  CHOOSE best_shanten \in
    {Least({8, ShantenWithoutPair(tiles, called_melds, deficit)}
           \cup {ShantenWithPair(tiles, i, called_melds, deficit) :
                   i \in {j \in 0..33 : tiles[j] >= 2}}) :
       deficit \in {tile_deficit}} : TRUE

\* calculate_standard_shanten_with_melds
calculate_standard_shanten_with_melds(counts, called_melds) ==
  CHOOSE best_shanten \in
    {LET total_hand_tiles == ArraySum(tiles, 0)
         min_tenpai_tiles == IF called_melds >= 4 THEN 1
                             ELSE saturating_sub(13, 3 * called_melds)
         tile_deficit == saturating_sub(min_tenpai_tiles, total_hand_tiles)
     IN  BestShanten(tiles, called_melds, tile_deficit) :
       tiles \in {counts_to_array(counts)}} : TRUE

\* calculate_chiitoitsu_shanten
calculate_chiitoitsu_shanten(counts) ==
  LET pairs == Cardinality({t \in DOMAIN counts : counts[t] >= 2})
      unique_tiles == Cardinality({t \in DOMAIN counts : counts[t] >= 1})
  IN  6 - pairs + Max(7 - unique_tiles, 0)

\* calculate_kokushi_shanten
calculate_kokushi_shanten(counts) ==
  LET unique_terminals == Cardinality({i \in 1..13 : Get(counts, KOKUSHI_TILES[i]) >= 1})
      has_pair == \E i \in 1..13 : Get(counts, KOKUSHI_TILES[i]) >= 2
  IN  13 - unique_terminals - (IF has_pair THEN 1 ELSE 0)

\* the end of calculate_shanten_with_melds: the lowest of the three values
BestType(standard, chiitoi, kokushi, called_melds) ==
  CHOOSE result \in
    {IF called_melds > 0 THEN [shanten |-> s, best_type |-> "Standard"]
     ELSE IF s <= c /\ s <= k THEN [shanten |-> s, best_type |-> "Standard"]
     ELSE IF c <= k THEN [shanten |-> c, best_type |-> "Chiitoitsu"]
     ELSE [shanten |-> k, best_type |-> "Kokushi"] :
       s \in {standard}, c \in {chiitoi}, k \in {kokushi}} : TRUE

\* calculate_shanten_with_melds: ShantenResult { shanten, best_type }
calculate_shanten_with_melds(counts, called_melds) ==
  CHOOSE result \in
    {BestType(calculate_standard_shanten_with_melds(c, called_melds),
              calculate_chiitoitsu_shanten(c), calculate_kokushi_shanten(c),
              called_melds) : c \in {counts}} : TRUE

\* the test of the ukeire loop with a tile accepted when it does not worsen
\* the shanten
Accepts_NotWorse(counts, called_melds, current, idx) ==
  LET tile == index_to_tile(idx)
  IN  /\ ~(Get(counts, tile) >= 4)
      /\ calculate_shanten_with_melds(Increment(counts, tile), called_melds).shanten <= current

\* the test in the loop over the 34 tiles of calculate_ukeire_with_melds: the
\* tile at idx is not held four times and adding it improves the shanten
Accepts(counts, called_melds, current, idx) ==
  LET tile == index_to_tile(idx)
  IN  /\ ~(Get(counts, tile) >= 4)
      /\ calculate_shanten_with_melds(Increment(counts, tile), called_melds).shanten < current

\* total_count += available, over the accepted tiles
RECURSIVE SumAvailable(_, _)
SumAvailable(counts, indices) ==
  CHOOSE sum \in
    {IF rest = {} THEN 0
     ELSE LET idx == CHOOSE x \in rest : TRUE
          IN  (4 - Get(counts, index_to_tile(idx))) + SumAvailable(counts, rest \ {idx}) :
       rest \in {indices}} : TRUE

\* the UkeireResult built from the accepted indices: the tiles are pushed in
\* index order, total_count is a u8
UkeireOf(counts, current, indices) ==
  CHOOSE result \in
    {LET nth(k) == CHOOSE idx \in accepted : Cardinality({j \in accepted : j < idx}) = k - 1
     IN  [shanten |-> current,
          tiles |-> [k \in 1..Cardinality(accepted) |->
                       [tile |-> index_to_tile(nth(k)),
                        available |-> 4 - Get(counts, index_to_tile(nth(k)))]],
          total_count |-> SumAvailable(counts, accepted) % 256] :
       accepted \in {indices}} : TRUE

\* calculate_ukeire_with_melds: UkeireResult { shanten, tiles, total_count }
calculate_ukeire_with_melds(counts, called_melds) ==
  CHOOSE result \in
    {UkeireOf(counts, current,
              {idx \in 0..33 : Accepts(counts, called_melds, current, idx)}) :
       current \in {calculate_shanten_with_melds(counts, called_melds).shanten}} : TRUE

(***************************************************************************)
(* context.rs                                                              *)
(***************************************************************************)
WinTypes == {"Ron", "Tsumo"}

\* GameContext::new
new(win_type, round_wind, seat_wind) ==
  [win_type |-> win_type, winning_tile |-> None,
   round_wind |-> round_wind, seat_wind |-> seat_wind,
   is_open |-> FALSE,
   is_riichi |-> FALSE, is_double_riichi |-> FALSE, is_ippatsu |-> FALSE,
   is_rinshan |-> FALSE, is_chankan |-> FALSE, is_last_tile |-> FALSE,
   is_tenhou |-> FALSE, is_chiihou |-> FALSE,
   dora_indicators |-> << >>, ura_dora_indicators |-> << >>, aka_count |-> 0]

with_winning_tile(self, tile) == [self EXCEPT !.winning_tile = tile]

open(self) == [self EXCEPT !.is_open = TRUE]

riichi(self) == [self EXCEPT !.is_riichi = TRUE]

double_riichi(self) == [self EXCEPT !.is_double_riichi = TRUE, !.is_riichi = TRUE]

ippatsu(self) == [self EXCEPT !.is_ippatsu = TRUE]

rinshan(self) == [self EXCEPT !.is_rinshan = TRUE]

chankan(self) == [self EXCEPT !.is_chankan = TRUE]

last_tile(self) == [self EXCEPT !.is_last_tile = TRUE]

tenhou(self) == [self EXCEPT !.is_tenhou = TRUE]

chiihou(self) == [self EXCEPT !.is_chiihou = TRUE]

with_dora(self, indicators) == [self EXCEPT !.dora_indicators = indicators]

with_ura_dora(self, indicators) == [self EXCEPT !.ura_dora_indicators = indicators]

with_aka(self, count) == [self EXCEPT !.aka_count = count]

is_dealer(self) == self.seat_wind = East

\* indicator_to_dora: the tile after the indicator, each cycle wrapping
indicator_to_dora(indicator) ==
  IF ~is_honor(indicator)
  THEN Suited(indicator.suit, IF indicator.value = 9 THEN 1 ELSE indicator.value + 1)
  ELSE Honor(CASE indicator.value = East -> South
               [] indicator.value = South -> West
               [] indicator.value = West -> North
               [] indicator.value = North -> East
               [] indicator.value = White -> Green
               [] indicator.value = Green -> Red
               [] OTHER -> White)

\* the loop of count_dora over a list of indicators
RECURSIVE DoraOf(_, _)
DoraOf(counts, indicators) ==
  IF indicators = << >> THEN 0
  ELSE Get(counts, indicator_to_dora(Head(indicators))) + DoraOf(counts, Tail(indicators))

\* count_dora that counts the ura dora without riichi as well
count_dora_UraAlways(counts, context) ==
  (DoraOf(counts, context.dora_indicators) + DoraOf(counts, context.ura_dora_indicators)
     + context.aka_count) % 256

\* count_dora: regular dora, ura dora with riichi only, red fives; a u8
count_dora(counts, context) ==
  (DoraOf(counts, context.dora_indicators)
     + (IF context.is_riichi THEN DoraOf(counts, context.ura_dora_indicators) ELSE 0)
     + context.aka_count) % 256

\* count_dora_detailed: the same count, kept apart by kind
count_dora_detailed(counts, context) ==
  [regular |-> DoraOf(counts, context.dora_indicators) % 256,
   ura |-> IF context.is_riichi
           THEN DoraOf(counts, context.ura_dora_indicators) % 256 ELSE 0,
   aka |-> context.aka_count]

\* DoraCount::total
total(dora) == (dora.regular + dora.ura + dora.aka) % 256

(***************************************************************************)
(* wait.rs                                                                 *)
(***************************************************************************)
\* WaitType::fu
fu(wait_type) ==
  CASE wait_type = "Ryanmen" -> 0
    [] wait_type = "Shanpon" -> 0
    [] wait_type = "Kanchan" -> 2
    [] wait_type = "Penchan" -> 2
    [] wait_type = "Tanki" -> 2
    [] OTHER -> 0

\* a classifier that calls every completion at the low end of a sequence two-sided
wait_type_for_shuntsu_position_LowRyanmen(start_val, winning_val) ==
  IF winning_val = start_val THEN "Ryanmen"
  ELSE IF winning_val = start_val + 1 THEN "Kanchan"
  ELSE IF start_val = 1 THEN "Penchan" ELSE "Ryanmen"

wait_type_for_shuntsu_position(start_val, winning_val) ==
  IF winning_val = start_val
  THEN (IF start_val + 2 = 9 THEN "Penchan" ELSE "Ryanmen")
  ELSE IF winning_val = start_val + 1 THEN "Kanchan"
  ELSE (IF start_val = 1 THEN "Penchan" ELSE "Ryanmen")

\* check_shuntsu_wait: Some(wait type) as a one-element list, None as the empty list
check_shuntsu_wait(start_tile, winning_tile) ==
  IF is_honor(start_tile) \/ is_honor(winning_tile) THEN << >>
  ELSE IF start_tile.suit # winning_tile.suit THEN << >>
  ELSE IF winning_tile.value < start_tile.value \/ winning_tile.value > start_tile.value + 2
  THEN << >>
  ELSE << wait_type_for_shuntsu_position(start_tile.value, winning_tile.value) >>

\* the loop over the melds in detect_wait_types
RECURSIVE MeldWaits(_, _)
MeldWaits(melds, winning_tile) ==
  IF melds = << >> THEN << >>
  ELSE LET meld == Head(melds)
           here == IF meld.kind = "Koutsu" /\ meld.tile = winning_tile THEN << "Shanpon" >>
                   ELSE IF meld.kind = "Shuntsu" THEN check_shuntsu_wait(meld.tile, winning_tile)
                   ELSE << >>
       IN  here \o MeldWaits(Tail(melds), winning_tile)

detect_wait_types(structure, winning_tile) ==
  CASE structure.kind = "Chiitoitsu" ->
         IF \E i \in 1..Len(structure.pairs) : structure.pairs[i] = winning_tile
         THEN << "Tanki" >> ELSE << >>
    [] structure.kind = "Kokushi" ->
         IF structure.pair = winning_tile THEN << "Tanki" >> ELSE << "Kokushi13" >>
    [] OTHER ->
         (IF structure.pair = winning_tile THEN << "Tanki" >> ELSE << >>)
           \o MeldWaits(structure.melds, winning_tile)

is_yakuhai_pair(pair, context) ==
  IF is_honor(pair)
  THEN (IF pair.value \in {White, Green, Red} THEN TRUE
        ELSE pair.value = context.round_wind \/ pair.value = context.seat_wind)
  ELSE FALSE

\* is_pinfu without the test of the wait
is_pinfu_AnyWait(structure, winning_tile, context) ==
  IF context.is_open THEN FALSE
  ELSE IF structure.kind # "Standard" THEN FALSE
  ELSE IF ~(\A i \in 1..Len(structure.melds) : is_sequence(structure.melds[i])) THEN FALSE
  ELSE ~is_yakuhai_pair(structure.pair, context)

is_pinfu(structure, winning_tile, context) ==
  IF context.is_open THEN FALSE
  ELSE IF structure.kind # "Standard" THEN FALSE
  ELSE IF ~(\A i \in 1..Len(structure.melds) : is_sequence(structure.melds[i])) THEN FALSE
  ELSE IF is_yakuhai_pair(structure.pair, context) THEN FALSE
  ELSE LET wait_types == detect_wait_types(structure, winning_tile)
       IN  \E i \in 1..Len(wait_types) : wait_types[i] = "Ryanmen"

\* the key of min_by_key in best_wait_type
WaitPriority(wait_type) ==
  CASE wait_type = "Ryanmen" -> 0
    [] wait_type = "Shanpon" -> 1
    [] wait_type = "Kanchan" -> 2
    [] wait_type = "Penchan" -> 3
    [] wait_type = "Tanki" -> 4
    [] OTHER -> 5

\* best_wait_type: the wait of least (fu, priority); Some as a one-element list
best_wait_type(structure, winning_tile) ==
  LET wait_types == detect_wait_types(structure, winning_tile)
      key(w) == 10 * fu(w) + WaitPriority(w)
  IN  IF wait_types = << >> THEN << >>
      ELSE << CHOOSE w \in {wait_types[i] : i \in 1..Len(wait_types)} :
                \A i \in 1..Len(wait_types) : key(w) <= key(wait_types[i]) >>

\* best_wait_type_for_scoring, as calculate_standard_fu uses it: "use the
\* highest fu wait type for maximum scoring" (scoring.rs, at the call).  Only
\* the fu of the returned wait is read, so which of several waits of the
\* highest fu is returned does not reach any result.
best_wait_type_for_scoring(structure, winning_tile) ==
  LET wait_types == detect_wait_types(structure, winning_tile)
  IN  IF wait_types = << >> THEN << >>
      ELSE << CHOOSE w \in {wait_types[i] : i \in 1..Len(wait_types)} :
                \A i \in 1..Len(wait_types) : fu(w) >= fu(wait_types[i]) >>

(***************************************************************************)
(* yaku.rs                                                                 *)
(***************************************************************************)
\* a variant of Yaku without data; honor is that of Yakuhai only
Yaku(name) == [name |-> name, honor |-> East]

\* Yaku::Yakuhai(honor)
Yakuhai(honor) == [name |-> "Yakuhai", honor |-> honor]

\* Yaku::han
han(y) ==
  CASE y.name \in {"Riichi", "Ippatsu", "MenzenTsumo", "Tanyao", "Pinfu", "Iipeikou",
                   "Yakuhai", "RinshanKaihou", "Chankan", "HaiteiRaoyue",
                   "HouteiRaoyui"} -> 1
    [] y.name \in {"DoubleRiichi", "Toitoi", "SanshokuDoujun", "SanshokuDoukou", "Ittsu",
                   "Chiitoitsu", "Chanta", "SanAnkou", "SanKantsu", "Honroutou",
                   "Shousangen"} -> 2
    [] y.name \in {"Honitsu", "Junchan", "Ryanpeikou"} -> 3
    [] y.name = "Chinitsu" -> 6
    [] y.name \in {"Tenhou", "Chiihou", "KokushiMusou", "Suuankou", "Daisangen",
                   "Shousuushii", "Daisuushii", "Tsuuiisou", "Chinroutou", "Ryuuiisou",
                   "ChuurenPoutou"} -> 13
    [] OTHER -> 26

\* han_open that keeps the closed value of every yaku valid when open
han_open_NoReduction(y) ==
  IF y.name \in {"Riichi", "DoubleRiichi", "Ippatsu", "MenzenTsumo", "Pinfu", "Iipeikou",
                 "Ryanpeikou", "Tenhou", "Chiihou", "Suuankou", "SuuankouTanki",
                 "ChuurenPoutou", "JunseiChuurenPoutou", "KokushiMusou", "Kokushi13Wait"}
  THEN << >> ELSE << han(y) >>

\* Yaku::han_open: Some(han) as a one-element list, None as the empty list
han_open(y) ==
  CASE y.name \in {"Riichi", "DoubleRiichi", "Ippatsu", "MenzenTsumo", "Pinfu", "Iipeikou",
                   "Ryanpeikou", "Tenhou", "Chiihou", "Suuankou", "SuuankouTanki",
                   "ChuurenPoutou", "JunseiChuurenPoutou", "KokushiMusou",
                   "Kokushi13Wait"} -> << >>
    [] y.name \in {"SanshokuDoujun", "Ittsu", "Chanta"} -> << 1 >>
    [] y.name \in {"Honitsu", "Junchan"} -> << 2 >>
    [] y.name = "Chinitsu" -> << 5 >>
    [] y.name \in {"Tanyao", "Yakuhai", "RinshanKaihou", "Chankan", "HaiteiRaoyue",
                   "HouteiRaoyui"} -> << 1 >>
    [] y.name \in {"Toitoi", "SanshokuDoukou", "Chiitoitsu", "SanAnkou", "SanKantsu",
                   "Honroutou", "Shousangen"} -> << 2 >>
    [] OTHER -> << 13 >>

valid_when_open(y) == han_open(y) # << >>

\* Yaku::is_yakuman
is_yakuman(y) ==
  y.name \in {"Tenhou", "Chiihou", "KokushiMusou", "Kokushi13Wait", "Suuankou",
              "SuuankouTanki", "Daisangen", "Shousuushii", "Daisuushii", "Tsuuiisou",
              "Chinroutou", "Ryuuiisou", "ChuurenPoutou", "JunseiChuurenPoutou"}

\* total_han_with_dora that never adds the dora
total_han_with_dora_NoDora(self) == self.total_han

\* YakuResult::total_han_with_dora
total_han_with_dora(self) ==
  IF self.is_yakuman THEN self.total_han
  ELSE (self.total_han + self.dora_count) % 256

\* collect_all_tiles
RECURSIVE MeldsAllTiles(_)
MeldsAllTiles(melds) ==
  IF melds = << >> THEN << >>
  ELSE LET m == Head(melds)
           t == m.tile
           here == CASE m.kind = "Koutsu" -> << t, t, t >>
                     [] m.kind = "Shuntsu" ->
                          IF is_honor(t) THEN << t >>
                          ELSE << t, Suited(t.suit, t.value + 1), Suited(t.suit, t.value + 2) >>
                     [] OTHER -> << t, t, t, t >>
       IN  here \o MeldsAllTiles(Tail(melds))

collect_all_tiles(melds, pair) == << pair, pair >> \o MeldsAllTiles(melds)

\* check_peikou: Some(yaku) as a one-element list
check_peikou(melds) ==
  LET sequences == {i \in 1..Len(melds) : melds[i].kind = "Shuntsu"}
      seq_counts(t) == Cardinality({i \in sequences : melds[i].tile = t})
      pairs_of_sequences ==
        Cardinality({t \in {melds[i].tile : i \in sequences} : seq_counts(t) >= 2})
  IN  IF Cardinality(sequences) < 2 THEN << >>
      ELSE IF pairs_of_sequences >= 2 THEN << Yaku("Ryanpeikou") >>
      ELSE IF pairs_of_sequences = 1 THEN << Yaku("Iipeikou") >>
      ELSE << >>

\* check_yakuhai
RECURSIVE check_yakuhai(_, _)
check_yakuhai(melds, context) ==
  IF melds = << >> THEN << >>
  ELSE LET meld == Head(melds)
           honor == meld.tile.value
           here ==
             IF ~(is_triplet_or_kan(meld) /\ is_honor(meld.tile)) THEN << >>
             ELSE IF honor \in {White, Green, Red} THEN << Yakuhai(honor) >>
             ELSE (IF honor = context.round_wind THEN << Yakuhai(honor) >> ELSE << >>)
                    \o (IF honor = context.seat_wind THEN << Yakuhai(honor) >> ELSE << >>)
       IN  here \o check_yakuhai(Tail(melds), context)

\* the suited sequences (or triplets and kans) of the melds, as (suit, value) pairs
SuitedStarts(melds, kinds) ==
  {<<melds[i].tile.suit, melds[i].tile.value>> :
     i \in {j \in 1..Len(melds) : melds[j].kind \in kinds /\ ~is_honor(melds[j].tile)}}

\* check_sanshoku
check_sanshoku(melds) ==
  LET sequences == SuitedStarts(melds, {"Shuntsu"})
  IN  \E value \in 1..9 : \A suit \in Suits : <<suit, value>> \in sequences

\* check_ittsu
check_ittsu(melds) ==
  LET sequences == SuitedStarts(melds, {"Shuntsu"})
  IN  \E suit \in Suits :
        <<suit, 1>> \in sequences /\ <<suit, 4>> \in sequences /\ <<suit, 7>> \in sequences

\* check_sanshoku_doukou
check_sanshoku_doukou(melds) ==
  LET triplets == SuitedStarts(melds, {"Koutsu", "Kan"})
  IN  \E value \in 1..9 : \A suit \in Suits : <<suit, value>> \in triplets

\* check_chanta
check_chanta(melds, pair) ==
  IF ~is_terminal_or_honor(pair) THEN FALSE
  ELSE IF ~(\E i \in 1..Len(melds) : melds[i].kind = "Shuntsu") THEN FALSE
  ELSE \A i \in 1..Len(melds) :
         IF melds[i].kind = "Shuntsu"
         THEN (is_honor(melds[i].tile) \/ melds[i].tile.value = 1 \/ melds[i].tile.value = 7)
         ELSE is_terminal_or_honor(melds[i].tile)

\* check_junchan
check_junchan(melds, pair) ==
  IF ~((~is_honor(pair)) /\ (pair.value = 1 \/ pair.value = 9)) THEN FALSE
  ELSE IF ~(\E i \in 1..Len(melds) : melds[i].kind = "Shuntsu") THEN FALSE
  ELSE \A i \in 1..Len(melds) :
         IF is_honor(melds[i].tile) THEN FALSE
         ELSE IF melds[i].kind = "Shuntsu"
         THEN (melds[i].tile.value = 1 \/ melds[i].tile.value = 7)
         ELSE (melds[i].tile.value = 1 \/ melds[i].tile.value = 9)

\* check_flush_tiles: Some(yaku) as a one-element list
check_flush_tiles(tiles) ==
  LET suits == {tiles[i].suit : i \in {j \in 1..Len(tiles) : ~is_honor(tiles[j])}}
      has_honors == \E i \in 1..Len(tiles) : is_honor(tiles[i])
  IN  IF Cardinality(suits) # 1 THEN << >>
      ELSE IF has_honors THEN << Yaku("Honitsu") >>
      ELSE << Yaku("Chinitsu") >>

\* check_honroutou
check_honroutou(melds, pair) ==
  IF ~is_terminal_or_honor(pair) THEN FALSE
  ELSE \A i \in 1..Len(melds) :
         melds[i].kind # "Shuntsu" /\ is_terminal_or_honor(melds[i].tile)

\* check_shousangen
check_shousangen(melds, pair) ==
  LET dragon(m) == is_triplet_or_kan(m) /\ is_dragon(m.tile)
  IN  Cardinality({i \in 1..Len(melds) : dragon(melds[i])}) = 2 /\ is_dragon(pair)

\* check_suuankou: Some(yaku) as a one-element list
check_suuankou(melds, pair, context) ==
  IF context.win_type = "Ron" /\ context.winning_tile = None THEN << >>
  ELSE
    LET concealed(m) ==
          IF m.kind = "Koutsu"
          THEN (~m.open) /\ ~(context.win_type = "Ron" /\ context.winning_tile # None
                               /\ m.tile = context.winning_tile)
          ELSE m.kind = "Kan" /\ ~kan_is_open(m.kan_type)
        concealed_triplet_count == Cardinality({i \in 1..Len(melds) : concealed(melds[i])})
    IN  IF \E i \in 1..Len(melds) : melds[i].kind = "Shuntsu" THEN << >>
        ELSE IF concealed_triplet_count # 4 THEN << >>
        ELSE << Yaku("Suuankou") >>

\* check_daisangen
check_daisangen(melds) ==
  LET dragon(m) == is_triplet_or_kan(m) /\ is_dragon(m.tile)
  IN  Cardinality({i \in 1..Len(melds) : dragon(melds[i])}) = 3

\* check_four_winds: Some(yaku) as a one-element list
check_four_winds(melds, pair) ==
  LET wind(m) == is_triplet_or_kan(m) /\ is_wind(m.tile)
      wind_triplets == {i \in 1..Len(melds) : wind(melds[i])}
  IN  IF Cardinality(wind_triplets) = 4 THEN << Yaku("Daisuushii") >>
      ELSE IF /\ Cardinality(wind_triplets) = 3
              /\ is_wind(pair)
              /\ ~(\E i \in wind_triplets : melds[i].tile.value = pair.value)
      THEN << Yaku("Shousuushii") >>
      ELSE << >>

\* check_tsuuiisou
check_tsuuiisou(melds, pair) ==
  IF ~is_honor(pair) THEN FALSE
  ELSE \A i \in 1..Len(melds) : melds[i].kind # "Shuntsu" /\ is_honor(melds[i].tile)

\* check_chinroutou
check_chinroutou(melds, pair) ==
  IF ~is_terminal(pair) THEN FALSE
  ELSE \A i \in 1..Len(melds) : melds[i].kind # "Shuntsu" /\ is_terminal(melds[i].tile)

\* check_ryuuiisou
check_ryuuiisou(melds, pair) ==
  IF ~is_green(pair) THEN FALSE
  ELSE \A i \in 1..Len(melds) :
         IF melds[i].kind = "Shuntsu" THEN melds[i].tile = Suited("Sou", 2)
         ELSE is_green(melds[i].tile)

\* the loop over the values 1..9 in check_chuuren_poutou: the running total,
\* the value held once more than required, and whether the pattern still holds
RECURSIVE ChuurenScan(_, _, _, _, _)
ChuurenScan(counts, suit, value, sum, extra_tile) ==
  IF value > 9 THEN [pattern_match |-> TRUE, total |-> sum, extra_tile |-> extra_tile]
  ELSE
    LET count == Get(counts, Suited(suit, value))
        required == IF value = 1 \/ value = 9 THEN 3 ELSE 1
        sum1 == (sum + count) % 256
    IN  IF count < required
        THEN [pattern_match |-> FALSE, total |-> sum1, extra_tile |-> extra_tile]
        ELSE IF count > required /\ extra_tile # << >> /\ count > required + 1
        THEN [pattern_match |-> FALSE, total |-> sum1, extra_tile |-> extra_tile]
        ELSE ChuurenScan(counts, suit, value + 1, sum1,
                         IF count > required THEN << value >> ELSE extra_tile)

\* check_chuuren_poutou: Some(yaku) as a one-element list
check_chuuren_poutou(counts, context) ==
  LET suits == {t.suit : t \in DOMAIN counts}
      suit == CHOOSE s \in suits : TRUE
      scan == ChuurenScan(counts, suit, 1, 0, << >>)
      wt == context.winning_tile
  IN  IF context.is_open THEN << >>
      ELSE IF "Honor" \in suits \/ Cardinality(suits) # 1 THEN << >>
      ELSE IF (~scan.pattern_match) \/ scan.total # 14 THEN << >>
      ELSE IF wt # None /\ ~is_honor(wt) /\ wt.suit = suit /\ scan.extra_tile = << wt.value >>
      THEN << Yaku("JunseiChuurenPoutou") >>
      ELSE << Yaku("ChuurenPoutou") >>

\* the yakuman checks at the head of detect_yaku_with_context
YakumanChecks(structure, counts, context) ==
  LET is_open_hand == context.is_open
      melds == structure.melds
      pair == structure.pair
  IN  (IF /\ context.is_tenhou /\ context.win_type = "Tsumo"
          /\ ~is_open_hand /\ is_dealer(context)
       THEN << Yaku("Tenhou") >> ELSE << >>)
      \o (IF /\ context.is_chiihou /\ context.win_type = "Tsumo"
             /\ ~is_open_hand /\ ~is_dealer(context)
          THEN << Yaku("Chiihou") >> ELSE << >>)
      \o (CASE structure.kind = "Kokushi" ->
                 IF context.winning_tile # None /\ context.winning_tile = pair
                 THEN << Yaku("Kokushi13Wait") >> ELSE << Yaku("KokushiMusou") >>
            [] structure.kind = "Chiitoitsu" ->
                 IF \A i \in 1..Len(structure.pairs) : is_honor(structure.pairs[i])
                 THEN << Yaku("Tsuuiisou") >>
                 ELSE IF \A i \in 1..Len(structure.pairs) : is_terminal(structure.pairs[i])
                 THEN << Yaku("Chinroutou") >>
                 ELSE << >>
            [] OTHER ->
                 check_suuankou(melds, pair, context)
                 \o (IF check_daisangen(melds) THEN << Yaku("Daisangen") >> ELSE << >>)
                 \o check_four_winds(melds, pair)
                 \o (IF check_tsuuiisou(melds, pair) THEN << Yaku("Tsuuiisou") >> ELSE << >>)
                 \o (IF check_chinroutou(melds, pair) THEN << Yaku("Chinroutou") >> ELSE << >>)
                 \o (IF check_ryuuiisou(melds, pair) THEN << Yaku("Ryuuiisou") >> ELSE << >>)
                 \o (IF ~is_open_hand THEN check_chuuren_poutou(counts, context) ELSE << >>))

\* the yaku pushed from the context alone when no yakuman fired
ContextYaku(context) ==
  LET is_open_hand == context.is_open
  IN  (IF context.is_riichi /\ ~is_open_hand
       THEN (IF context.is_double_riichi THEN << Yaku("DoubleRiichi") >>
             ELSE << Yaku("Riichi") >>)
            \o (IF context.is_ippatsu THEN << Yaku("Ippatsu") >> ELSE << >>)
       ELSE << >>)
      \o (IF context.win_type = "Tsumo" /\ ~is_open_hand
          THEN << Yaku("MenzenTsumo") >> ELSE << >>)
      \o (IF context.is_rinshan /\ context.win_type = "Tsumo"
          THEN << Yaku("RinshanKaihou") >> ELSE << >>)
      \o (IF context.is_chankan /\ context.win_type = "Ron"
          THEN << Yaku("Chankan") >> ELSE << >>)
      \o (IF context.is_last_tile /\ context.win_type = "Tsumo"
          THEN << Yaku("HaiteiRaoyue") >> ELSE << >>)
      \o (IF context.is_last_tile /\ context.win_type = "Ron"
          THEN << Yaku("HouteiRaoyui") >> ELSE << >>)

\* the San Ankou block: the number of triplets and kans counted as concealed
concealed_triplets(melds, context) ==
  LET wt == context.winning_tile
      winning_tile_completes_sequence ==
        /\ wt # None
        /\ \E i \in 1..Len(melds) :
             /\ melds[i].kind = "Shuntsu"
             /\ ~is_honor(wt) /\ ~is_honor(melds[i].tile)
             /\ wt.suit = melds[i].tile.suit
             /\ wt.value >= melds[i].tile.value /\ wt.value <= melds[i].tile.value + 2
      concealed(m) ==
        IF m.kind = "Koutsu"
        THEN /\ ~m.open
             /\ \/ context.win_type = "Tsumo"
                \/ wt # None /\ (m.tile # wt \/ winning_tile_completes_sequence)
        ELSE m.kind = "Kan" /\ ~kan_is_open(m.kan_type)
  IN  Cardinality({i \in 1..Len(melds) : concealed(melds[i])})

\* the yaku pushed from the structure when no yakuman fired
StructureYaku(structure, context) ==
  LET melds == structure.melds
      pair == structure.pair
      pairs == structure.pairs
      all_tiles == collect_all_tiles(melds, pair)
      kan(m) == m.kind = "Kan"
      If(cond, name) == IF cond THEN << Yaku(name) >> ELSE << >>
  IN  CASE structure.kind = "Kokushi" -> << >>
        [] structure.kind = "Chiitoitsu" ->
             << Yaku("Chiitoitsu") >>
             \o If(\A i \in 1..Len(pairs) : is_simple(pairs[i]), "Tanyao")
             \o If(\A i \in 1..Len(pairs) : is_terminal_or_honor(pairs[i]), "Honroutou")
             \o check_flush_tiles(pairs)
        [] OTHER ->
             If(\A i \in 1..Len(all_tiles) : is_simple(all_tiles[i]), "Tanyao")
             \o If(context.winning_tile # None
                     /\ is_pinfu(structure, context.winning_tile, context), "Pinfu")
             \o (IF ~context.is_open THEN check_peikou(melds) ELSE << >>)
             \o check_yakuhai(melds, context)
             \o If(\A i \in 1..Len(melds) : is_triplet_or_kan(melds[i]), "Toitoi")
             \o If(check_sanshoku(melds), "SanshokuDoujun")
             \o If(check_sanshoku_doukou(melds), "SanshokuDoukou")
             \o If(check_ittsu(melds), "Ittsu")
             \o If(check_chanta(melds, pair) /\ ~check_junchan(melds, pair), "Chanta")
             \o If(concealed_triplets(melds, context) = 3, "SanAnkou")
             \o If(Cardinality({i \in 1..Len(melds) : kan(melds[i])}) = 3, "SanKantsu")
             \o If(check_honroutou(melds, pair), "Honroutou")
             \o If(check_shousangen(melds, pair), "Shousangen")
             \o If(check_junchan(melds, pair), "Junchan")
             \o check_flush_tiles(all_tiles)

\* has_yakuman that never finds a yakuman
has_yakuman_Never(yaku_list) == FALSE

\* has_yakuman: a yaku of the list is a yakuman
has_yakuman(yaku_list) == \E i \in 1..Len(yaku_list) : is_yakuman(yaku_list[i])

RECURSIVE SumHan(_)
SumHan(yaku_list) ==
  IF yaku_list = << >> THEN 0 ELSE han(Head(yaku_list)) + SumHan(Tail(yaku_list))

RECURSIVE SumHanOpen(_)
SumHanOpen(yaku_list) ==
  IF yaku_list = << >> THEN 0
  ELSE (IF han_open(Head(yaku_list)) = << >> THEN 0 ELSE han_open(Head(yaku_list))[1])
         + SumHanOpen(Tail(yaku_list))

\* detect_yaku_with_context
detect_yaku_with_context(structure, counts, context) ==
  LET first == YakumanChecks(structure, counts, context)
      found == IF has_yakuman(first) THEN first
               ELSE first \o ContextYaku(context) \o StructureYaku(structure, context)
      yaku_list == IF context.is_open THEN SelectSeq(found, valid_when_open) ELSE found
      total_han == IF context.is_open THEN SumHanOpen(yaku_list) % 256
                   ELSE SumHan(yaku_list) % 256
      dora == count_dora_detailed(counts, context)
  IN  [yaku_list |-> yaku_list,
       total_han |-> total_han,
       dora_count |-> total(dora),
       regular_dora |-> dora.regular,
       ura_dora |-> dora.ura,
       aka_dora |-> dora.aka,
       is_yakuman |-> \E i \in 1..Len(found) : is_yakuman(found[i])]

(***************************************************************************)
(* scoring.rs: fu                                                          *)
(***************************************************************************)
\* FuBreakdown::default() with a base
FuBreakdown(base) ==
  [base |-> base, menzen_ron |-> 0, tsumo |-> 0, melds |-> 0, pair |-> 0, wait |-> 0,
   raw_total |-> 0]

\* winning_tile_in_closed_sequence that also counts the called sequences
winning_tile_in_closed_sequence_AnySequence(tile, melds) ==
  IF is_honor(tile) THEN FALSE
  ELSE \E i \in 1..Len(melds) :
         /\ melds[i].kind = "Shuntsu"
         /\ ~is_honor(melds[i].tile)
         /\ melds[i].tile.suit = tile.suit
         /\ tile.value >= melds[i].tile.value /\ tile.value <= melds[i].tile.value + 2

\* winning_tile_in_closed_sequence
winning_tile_in_closed_sequence(tile, melds) ==
  IF is_honor(tile) THEN FALSE
  ELSE \E i \in 1..Len(melds) :
         /\ melds[i].kind = "Shuntsu"
         /\ ~melds[i].open
         /\ ~is_honor(melds[i].tile)
         /\ melds[i].tile.suit = tile.suit
         /\ tile.value >= melds[i].tile.value /\ tile.value <= melds[i].tile.value + 2

\* meld_fu_with_context
meld_fu_with_context(meld, all_melds, context) ==
  CASE meld.kind = "Shuntsu" -> 0
    [] meld.kind = "Koutsu" ->
         LET base == IF is_terminal_or_honor(meld.tile) THEN 4 ELSE 2
             is_ron_on_this_tile ==
               context.win_type = "Ron" /\ context.winning_tile = meld.tile
             is_true_shanpon ==
               is_ron_on_this_tile /\ ~winning_tile_in_closed_sequence(meld.tile, all_melds)
         IN  IF meld.open \/ is_true_shanpon THEN base ELSE base * 2
    [] OTHER ->
         LET base == IF is_terminal_or_honor(meld.tile) THEN 16 ELSE 8
         IN  IF kan_is_open(meld.kan_type) THEN base ELSE base * 2

\* the loop over the melds in calculate_standard_fu; breakdown.melds is a u8
RECURSIVE MeldsFu(_, _, _)
MeldsFu(melds, all_melds, context) ==
  IF melds = << >> THEN 0
  ELSE (MeldsFu(SubSeq(melds, 1, Len(melds) - 1), all_melds, context)
          + meld_fu_with_context(melds[Len(melds)], all_melds, context)) % 256

\* pair_fu
pair_fu(pair, context) ==
  IF ~is_honor(pair) THEN 0
  ELSE IF pair.value \in {White, Green, Red} THEN 2
  ELSE (IF pair.value = context.round_wind THEN 2 ELSE 0)
         + (IF pair.value = context.seat_wind THEN 2 ELSE 0)

\* round_up_to_10 that leaves the value as it is
round_up_to_10_Unrounded(value) == value

\* round_up_to_10 on a u8
round_up_to_10(value) == (((value + 9) % 256) \div 10) * 10

\* the open-hand minimum left out
OpenMinimum_Skipped(is_open_hand, rounded) == rounded

\* the last step of calculate_standard_fu: an open hand scores at least 30 fu
OpenMinimum(is_open_hand, rounded) == IF is_open_hand /\ rounded < 30 THEN 30 ELSE rounded

\* calculate_standard_fu: FuResult { total, breakdown }
calculate_standard_fu(melds, pair, context) ==
  LET winning_tile == context.winning_tile
      structure == Standard(melds, pair)
      is_pinfu_hand == winning_tile # None /\ is_pinfu(structure, winning_tile, context)
      best == best_wait_type_for_scoring(structure, winning_tile)
      wait == IF winning_tile = None \/ is_pinfu_hand \/ best = << >> THEN 0 ELSE fu(best[1])
      filled == [FuBreakdown(20) EXCEPT
                   !.menzen_ron = IF ~context.is_open /\ context.win_type = "Ron"
                                  THEN 10 ELSE 0,
                   !.tsumo = IF context.win_type = "Tsumo" /\ ~is_pinfu_hand THEN 2 ELSE 0,
                   !.melds = MeldsFu(melds, melds, context),
                   !.pair = pair_fu(pair, context),
                   !.wait = wait]
      breakdown == [filled EXCEPT
                      !.raw_total = (filled.base + filled.menzen_ron + filled.tsumo
                                       + filled.melds + filled.pair + filled.wait) % 256]
      rounded == round_up_to_10(breakdown.raw_total)
  IN  IF is_pinfu_hand /\ context.win_type = "Tsumo"
      THEN [total |-> 20, breakdown |-> FuBreakdown(20)]
      ELSE [total |-> OpenMinimum(context.is_open, rounded),
            breakdown |-> breakdown]

\* calculate_fu
calculate_fu(structure, context) ==
  CASE structure.kind = "Chiitoitsu" -> [total |-> 25, breakdown |-> FuBreakdown(25)]
    [] structure.kind = "Kokushi" -> [total |-> 30, breakdown |-> FuBreakdown(30)]
    [] OTHER -> calculate_standard_fu(structure.melds, structure.pair, context)

(***************************************************************************)
(* scoring.rs: score                                                       *)
(***************************************************************************)
\* determine_score_level that reaches Mangan by han alone
determine_score_level_ManganAtFive(total_han, fu_total, is_yakuman_hand) ==
  IF is_yakuman_hand THEN (IF total_han >= 26 THEN "DoubleYakuman" ELSE "Yakuman")
  ELSE IF total_han >= 13 THEN "Yakuman"
  ELSE IF total_han >= 11 THEN "Sanbaiman"
  ELSE IF total_han >= 8 THEN "Baiman"
  ELSE IF total_han >= 6 THEN "Haneman"
  ELSE IF total_han >= 5 THEN "Mangan"
  ELSE "Normal"

\* determine_score_level
determine_score_level(total_han, fu_total, is_yakuman_hand) ==
  IF is_yakuman_hand THEN (IF total_han >= 26 THEN "DoubleYakuman" ELSE "Yakuman")
  ELSE IF total_han >= 13 THEN "Yakuman"
  ELSE IF total_han >= 11 THEN "Sanbaiman"
  ELSE IF total_han >= 8 THEN "Baiman"
  ELSE IF total_han >= 6 THEN "Haneman"
  ELSE IF total_han >= 5 THEN "Mangan"
  ELSE IF total_han = 4 /\ fu_total >= 40 THEN "Mangan"
  ELSE IF total_han = 3 /\ fu_total >= 70 THEN "Mangan"
  ELSE "Normal"

\* ScoreLevel::basic_points
basic_points(level) ==
  CASE level = "Normal" -> 0
    [] level = "Mangan" -> 2000
    [] level = "Haneman" -> 3000
    [] level = "Baiman" -> 4000
    [] level = "Sanbaiman" -> 6000
    [] level = "Yakuman" -> 8000
    [] OTHER -> 16000

\* calculate_basic_points without the cap at 2000
calculate_basic_points_Uncapped(total_han, fu_total, is_yakuman_hand) ==
  LET level == determine_score_level(total_han, fu_total, is_yakuman_hand)
  IN  IF level # "Normal" THEN basic_points(level)
      ELSE fu_total * 2 ^ (total_han + 2)

\* calculate_basic_points; the power is taken in the Normal level only, where
\* total_han is at most 4
calculate_basic_points(total_han, fu_total, is_yakuman_hand) ==
  LET level == determine_score_level(total_han, fu_total, is_yakuman_hand)
  IN  IF level # "Normal" THEN basic_points(level)
      ELSE Min(fu_total * 2 ^ (total_han + 2), 2000)

\* round_up_to_100 that rounds down
round_up_to_100_Down(value) == (value \div 100) * 100

\* round_up_to_100
round_up_to_100(value) == ((value + 99) \div 100) * 100

\* calculate_payment; Some(x) is << x >> and None is << >>
calculate_payment(points, dealer, win_type) ==
  IF win_type = "Tsumo"
  THEN IF dealer
       THEN LET from_each == round_up_to_100(points * 2)
            IN  [total |-> from_each * 3, from_non_dealer |-> << from_each >>,
                 from_dealer |-> << >>, from_discarder |-> << >>]
       ELSE LET from_dealer == round_up_to_100(points * 2)
                from_non_dealer == round_up_to_100(points)
            IN  [total |-> from_dealer + (from_non_dealer * 2),
                 from_non_dealer |-> << from_non_dealer >>,
                 from_dealer |-> << from_dealer >>, from_discarder |-> << >>]
  ELSE LET multiplier == IF dealer THEN 6 ELSE 4
           from_discarder == round_up_to_100(points * multiplier)
       IN  [total |-> from_discarder, from_non_dealer |-> << >>, from_dealer |-> << >>,
            from_discarder |-> << from_discarder >>]

\* calculate_score once the fu are calculated: the ScoringResult without its fu
ScoringResult(fu_total, yaku_result, context) ==
  LET total_han == total_han_with_dora(yaku_result)
      score_level == determine_score_level(total_han, fu_total, yaku_result.is_yakuman)
      points == calculate_basic_points(total_han, fu_total, yaku_result.is_yakuman)
  IN  [han |-> total_han, score_level |-> score_level, basic_points |-> points,
       payment |-> calculate_payment(points, is_dealer(context), context.win_type),
       is_dealer |-> is_dealer(context),
       is_counted_yakuman |-> /\ score_level \in {"Yakuman", "DoubleYakuman"}
                              /\ ~yaku_result.is_yakuman]

\* calculate_score
calculate_score(structure, yaku_result, context) ==
  ScoringResult(calculate_fu(structure, context).total, yaku_result, context)

(***************************************************************************)
(* parse.rs: the hand notation.  A string is the sequence of its           *)
(* characters; positions are counted from 1.                               *)
(***************************************************************************)
Digits == << "1", "2", "3", "4", "5", "6", "7", "8", "9" >>

IsDigit(ch) == \E d \in 1..9 : Digits[d] = ch

\* char::to_digit(10) of a character '1'..='9'
to_digit(ch) == CHOOSE d \in 1..9 : Digits[d] = ch

UpperLetters == << "E", "S", "W", "N", "G", "R", "H" >>

LowerLetters == << "e", "s", "w", "n", "g", "r", "h" >>

\* char::to_ascii_lowercase on the letters of the notation
to_ascii_lowercase(ch) ==
  IF \E k \in 1..7 : UpperLetters[k] = ch
  THEN LowerLetters[CHOOSE k \in 1..7 : UpperLetters[k] = ch]
  ELSE ch

\* try_parse_honor_letter: Option<(Honor, usize)>
try_parse_honor_letter(chars, pos) ==
  IF pos > Len(chars) THEN << >>
  ELSE LET ch == to_ascii_lowercase(chars[pos])
       IN  IF ch = "w" /\ pos + 1 <= Len(chars) /\ to_ascii_lowercase(chars[pos + 1]) = "h"
           THEN << [honor |-> White, consumed |-> 2] >>
           ELSE IF ch = "e" THEN << [honor |-> East, consumed |-> 1] >>
           ELSE IF ch = "s" THEN << [honor |-> South, consumed |-> 1] >>
           ELSE IF ch = "w" THEN << [honor |-> West, consumed |-> 1] >>
           ELSE IF ch = "n" THEN << [honor |-> North, consumed |-> 1] >>
           ELSE IF ch = "g" THEN << [honor |-> Green, consumed |-> 1] >>
           ELSE IF ch = "r" THEN << [honor |-> Red, consumed |-> 1] >>
           ELSE << >>

\* the honor written as the number n of the z suit, for n in 1..7
HonorOfNumber(n) ==
  CASE n = 1 -> East [] n = 2 -> South [] n = 3 -> West [] n = 4 -> North
    [] n = 5 -> White [] n = 6 -> Green [] n = 7 -> Red

\* a Result of the parser: Ok with its value, Err, or Panic when the call
\* does not return
MeldOk(meld, tiles, aka) == [kind |-> "Ok", meld |-> meld, tiles |-> tiles, aka |-> aka]

MeldErr == [kind |-> "Err", meld |-> Koutsu(None, FALSE), tiles |-> << >>, aka |-> 0]

MeldPanic == [kind |-> "Panic", meld |-> Koutsu(None, FALSE), tiles |-> << >>, aka |-> 0]

\* the meld of three or four tiles in parse_meld (both notations)
MeldOfTiles(tiles, is_closed, may_be_sequence) ==
  LET first == tiles[1]
      same == \A k \in 1..Len(tiles) : tiles[k] = first
      values == {tiles[k].value : k \in 1..3}
      low == CHOOSE v \in values : \A w \in values : v <= w
      high == CHOOSE v \in values : \A w \in values : w <= v
      sorted_values ==
        << low, tiles[1].value + tiles[2].value + tiles[3].value - low - high, high >>
  IN  IF Len(tiles) = 4
      THEN IF ~same THEN << >>
           ELSE << Kan(first, IF is_closed THEN "Closed" ELSE "Open") >>
      ELSE IF Len(tiles) = 3
      THEN IF same THEN << Koutsu(first, ~is_closed) >>
           ELSE IF may_be_sequence
           THEN IF sorted_values[2] = sorted_values[1] + 1
                   /\ sorted_values[3] = sorted_values[2] + 1
                THEN << Shuntsu(Suited(first.suit, sorted_values[1]), ~is_closed) >>
                ELSE << >>
           ELSE << >>
      ELSE << >>

\* the loop of parse_meld that reads honor letters from position i on: the
\* honors read, or NotHonors when a character is no honor letter
NotHonors == << -1 >>

RECURSIVE HonorLetters(_, _)
HonorLetters(chars, i) ==
  IF i > Len(chars) THEN << >>
  ELSE LET got == try_parse_honor_letter(chars, i)
       IN  IF got = << >> THEN NotHonors
           ELSE LET rest == HonorLetters(chars, i + got[1].consumed)
                IN  IF rest = NotHonors THEN rest ELSE << got[1].honor >> \o rest

\* parse_meld: the meld between the brackets
parse_meld(chars, is_closed) ==
  IF chars = << >> THEN MeldErr
  ELSE
  LET honor_tiles == HonorLetters(chars, 1)
  IN  IF honor_tiles # NotHonors /\ honor_tiles # << >>
      THEN LET tiles == [k \in 1..Len(honor_tiles) |-> Honor(honor_tiles[k])]
               meld == MeldOfTiles(tiles, is_closed, FALSE)
           IN  IF meld = << >> THEN MeldErr ELSE MeldOk(meld[1], tiles, 0)
      ELSE
      LET suit_char == chars[Len(chars)]
          body == SubSeq(chars, 1, Len(chars) - 1)
      IN  IF suit_char \notin {"m", "p", "s", "z"} THEN MeldErr
          ELSE IF \E k \in 1..Len(body) :
                    ~IsDigit(body[k]) /\ ~(body[k] = "0" /\ suit_char # "z")
          THEN MeldErr
          ELSE IF suit_char = "z" /\ \E k \in 1..Len(body) : to_digit(body[k]) > 7
          THEN MeldPanic
          ELSE
          LET suit == CASE suit_char = "m" -> "Man" [] suit_char = "p" -> "Pin"
                        [] suit_char = "s" -> "Sou" [] suit_char = "z" -> "Honor"
              value(k) == IF body[k] = "0" THEN 5 ELSE to_digit(body[k])
              tiles == [k \in 1..Len(body) |->
                          IF suit = "Honor" THEN Honor(HonorOfNumber(value(k)))
                          ELSE Suited(suit, value(k))]
              aka_count == Cardinality({k \in 1..Len(body) : body[k] = "0"})
              meld == MeldOfTiles(tiles, is_closed, suit # "Honor")
          IN  IF meld = << >> THEN MeldErr ELSE MeldOk(meld[1], tiles, aka_count)

\* Result<ParsedHand, String>; Panic when the call does not return
ParseOk(tiles, aka_count, melds) ==
  [kind |-> "Ok", tiles |-> tiles, aka_count |-> aka_count, called_melds |-> melds]

ParseErr == [kind |-> "Err", tiles |-> << >>, aka_count |-> 0, called_melds |-> << >>]

ParsePanic == [kind |-> "Panic", tiles |-> << >>, aka_count |-> 0, called_melds |-> << >>]

\* the tiles of the pending digits under a suit letter
PendingTiles(pending, suit) ==
  [k \in 1..Len(pending) |->
     IF suit = "Honor" THEN Honor(HonorOfNumber(pending[k].n)) ELSE Suited(suit, pending[k].n)]

PendingReds(pending) == Cardinality({k \in 1..Len(pending) : pending[k].is_red})

\* the while loop of parse_hand_with_aka from position i on
RECURSIVE parse_from(_, _, _, _, _, _)
parse_from(chars, i, tiles, aka_count, melds, pending) ==
  IF i > Len(chars)
  THEN IF pending # << >> THEN ParseErr ELSE ParseOk(tiles, aka_count, melds)
  ELSE
  LET ch == chars[i]
  IN  IF ch \in {"[", "("}
      THEN LET is_closed == ch = "["
               close_char == IF is_closed THEN "]" ELSE ")"
               start == i + 1
               ends == {e \in start..Len(chars) : chars[e] = close_char}
               end == CHOOSE e \in ends : \A f \in ends : e <= f
           IN  IF ends = {} THEN ParseErr
               ELSE LET got == parse_meld(SubSeq(chars, start, end - 1), is_closed)
                    IN  IF got.kind = "Panic" THEN ParsePanic
                        ELSE IF got.kind = "Err" THEN ParseErr
                        ELSE parse_from(chars, end + 1, tiles, aka_count + got.aka,
                                        Append(melds, [meld |-> got.meld, tiles |-> got.tiles]),
                                        pending)
      ELSE IF ch \in {"]", ")"} THEN ParseErr
      ELSE IF IsDigit(ch)
      THEN parse_from(chars, i + 1, tiles, aka_count, melds,
                      Append(pending, [n |-> to_digit(ch), is_red |-> FALSE]))
      ELSE IF ch = "0"
      THEN parse_from(chars, i + 1, tiles, aka_count, melds,
                      Append(pending, [n |-> 5, is_red |-> TRUE]))
      ELSE IF ch = "m" \/ (ch \in {"p", "s"} /\ pending # << >>)
      THEN parse_from(chars, i + 1,
                      tiles \o PendingTiles(pending, CASE ch = "m" -> "Man" [] ch = "p" -> "Pin"
                                                       [] ch = "s" -> "Sou"),
                      aka_count + PendingReds(pending), melds, << >>)
      ELSE IF ch = "z"
      THEN IF \E k \in 1..Len(pending) : pending[k].is_red \/ pending[k].n > 7
           THEN ParseErr
           ELSE parse_from(chars, i + 1, tiles \o PendingTiles(pending, "Honor"), aka_count,
                           melds, << >>)
      ELSE IF ch \in {" ", "\t", "\n"} THEN parse_from(chars, i + 1, tiles, aka_count, melds, pending)
      ELSE IF pending # << >> THEN ParseErr
      ELSE LET got == try_parse_honor_letter(chars, i)
           IN  IF got = << >> THEN ParseErr
               ELSE parse_from(chars, i + got[1].consumed, Append(tiles, Honor(got[1].honor)),
                               aka_count, melds, pending)

\* parse_hand_with_aka
parse_hand_with_aka(chars) == parse_from(chars, 1, << >>, 0, << >>, << >>)

(***************************************************************************)
(* parse.rs: validation                                                    *)
(***************************************************************************)
\* validate_hand: "Ok" or the kind of the error
validate_hand(hand) ==
  IF Total(hand) # 14 THEN "InvalidHandSize"
  ELSE IF \E t \in DOMAIN hand : hand[t] > 4 THEN "TileOverflow"
  ELSE "Ok"

\* validate_hand_with_melds: "Ok" or the kind of the error
validate_hand_with_melds(hand, melds) ==
  LET kan_count == Cardinality({i \in 1..Len(melds) : melds[i].kind = "Kan"})
      called == MeldsAllTiles(melds)
      total_tiles == Total(hand) + Len(called)
      all_tiles == [t \in DOMAIN hand \cup {called[i] : i \in 1..Len(called)} |->
                      Get(hand, t) + Cardinality({i \in 1..Len(called) : called[i] = t})]
  IN  IF total_tiles # 14 + kan_count THEN "InvalidHandSize"
      ELSE IF \E t \in DOMAIN all_tiles : all_tiles[t] > 4 THEN "TileOverflow"
      ELSE "Ok"

\* main.rs: the validation of a hand that is to be scored
main_validation(hand, melds) ==
  IF melds # << >> THEN validate_hand_with_melds(hand, melds) ELSE validate_hand(hand)

(***************************************************************************)
(* main.rs and agari-wasm lib.rs: the best interpretation                  *)
(***************************************************************************)
\* the contexts the decompositions are scored with: the context itself when
\* the winning tile is given, and otherwise one per distinct tile in hand
CandidateContexts(context, hand) ==
  IF context.winning_tile # None THEN {context}
  ELSE {with_winning_tile(context, t) : t \in DOMAIN hand}

\* every decomposition scored with every candidate context: the tuples
\* (structure, yaku_result, score) of both front ends, with the context and
\* the position of the decomposition in the list
ScoreTable(structures, hand, all_tiles, context) ==
  {CHOOSE row \in
     {[context |-> c, index |-> i, structure |-> structures[i], yaku |-> y,
       fu |-> calculate_fu(structures[i], c), score |-> calculate_score(structures[i], y, c)] :
        y \in {detect_yaku_with_context(structures[i], all_tiles, c)}} : TRUE :
     c \in CandidateContexts(context, hand), i \in 1..Len(structures)}

\* the comparison of (payment, han, 255 - fu) tuples
BetterTriple(a, b) ==
  \/ a.score.payment.total > b.score.payment.total
  \/ /\ a.score.payment.total = b.score.payment.total
     /\ \/ a.score.han > b.score.han
        \/ a.score.han = b.score.han /\ 255 - a.fu.total > 255 - b.fu.total

\* the comparison of score_hand_internal when the winning tile is given
BetterPair(a, b) ==
  \/ a.score.payment.total > b.score.payment.total
  \/ a.score.payment.total = b.score.payment.total /\ a.score.han > b.score.han

\* the rows a loop over the tiles in hand and, inside it, over the list of
\* decompositions can end with when it keeps the first row no other row is
\* better than: the tiles are visited in the order of a HashSet, which is any
\* order, the decompositions in the order of the list
FirstBest(rows, triple) ==
  LET better(a, b) == IF triple THEN BetterTriple(a, b) ELSE BetterPair(a, b)
      best == {r \in rows : \A q \in rows : ~better(q, r)}
  IN  {r \in best : \A q \in best : q.context = r.context => r.index <= q.index}

\* main.rs: every decomposition is scored, the results are sorted by
\* (payment, han, lowest fu) and the first is shown
main_best(table) == FirstBest(table, TRUE)

\* score_hand_internal: the decompositions without yaku are skipped; with a
\* given winning tile the best is chosen by (payment, han), with an inferred
\* one by (payment, han, 255 - fu)
score_hand_internal_best(table, explicit_winning_tile) ==
  FirstBest({r \in table : r.yaku.yaku_list # << >>}, ~explicit_winning_tile)

(***************************************************************************)
(* The state: the inputs of one evaluation and the results of the          *)
(* operations applied to them.                                             *)
(***************************************************************************)
VARIABLES
  counts,          \* TileCounts of the tiles in hand
  called_melds,    \* Vec<Meld> of the called melds
  op,              \* the operation that produced the results, "input" before any
  aborted,         \* TRUE when the operation panicked
  structures,      \* Vec<HandStructure> returned by the decomposer
  shanten_result,  \* ShantenResult
  ukeire_result,   \* UkeireResult
  context,         \* GameContext of the win
  structure,       \* the HandStructure that was scored
  yaku_result,     \* YakuResult
  fu_result,       \* FuResult
  score_result,    \* ScoringResult without its fu, which is fu_result
  wait_types,      \* Vec<WaitType> returned by the wait classifier
  outcome,         \* what a front end answers: "Score" or the kind of its error, "None" before
  input,           \* the characters of the hand notation given to the parser
  parsed,          \* Result<ParsedHand, String> of the parser
  best_context     \* the GameContext a front end returns with its best interpretation

vars == <<counts, called_melds, op, aborted, structures, shanten_result, ukeire_result,
          context, structure, yaku_result, fu_result, score_result, wait_types,
          outcome, input, parsed, best_context>>

results == <<structures, shanten_result, ukeire_result>>

front == <<outcome, input, parsed, best_context>>

scored == <<structure, yaku_result, fu_result, score_result, wait_types, front>>

\* the size of a hand that is checked, and the bound on the tiles held in
\* hand and in called melds together (three per called meld)
MaxTiles == 14

M(v) == Suited("Man", v)

P(v) == Suited("Pin", v)

S(v) == Suited("Sou", v)

\* the tiles that are added to a hand one at a time
DrawTiles == {M(5), M(6), M(7), M(8), M(9), Honor(East)}

\* the melds that are called
CallableMelds == {Koutsu(Honor(White), TRUE), Shuntsu(P(1), TRUE), Kan(Honor(South), "Closed")}

\* hands the drawing starts from: nothing; eleven of the thirteen orphans
\* (9m and East missing); five pairs
SeedHands ==
  { << >>,
    << M(1), P(1), P(9), S(1), S(9), Honor(South), Honor(West), Honor(North),
       Honor(White), Honor(Green), Honor(Red) >>,
    << P(2), P(2), P(3), P(3), P(4), P(4), S(6), S(6), Honor(Red), Honor(Red) >> }

NoShanten == [shanten |-> 8, best_type |-> "None"]

NoUkeire == [shanten |-> 8, tiles |-> << >>, total_count |-> 0]

NoYaku ==
  [yaku_list |-> << >>, total_han |-> 0, dora_count |-> 0, regular_dora |-> 0,
   ura_dora |-> 0, aka_dora |-> 0, is_yakuman |-> FALSE]

NoFu == [total |-> 0, breakdown |-> FuBreakdown(0)]

\* the parser's result before anything is parsed
NoParse == [kind |-> "None", tiles |-> << >>, aka_count |-> 0, called_melds |-> << >>]

\* the ScoringResult before any hand is scored
NoScore ==
  [han |-> 0, score_level |-> "Normal", basic_points |-> 0,
   payment |-> [total |-> 0, from_non_dealer |-> << >>, from_dealer |-> << >>,
                from_discarder |-> << >>],
   is_dealer |-> FALSE, is_counted_yakuman |-> FALSE]

InitResults ==
  /\ op = "input"
  /\ aborted = FALSE
  /\ structures = << >>
  /\ shanten_result = NoShanten
  /\ ukeire_result = NoUkeire
  /\ structure = Kokushi(None)
  /\ yaku_result = NoYaku
  /\ fu_result = NoFu
  /\ score_result = NoScore
  /\ wait_types = << >>
  /\ outcome = "None"
  /\ input = << >>
  /\ parsed = NoParse
  /\ best_context = context

Init ==
  /\ \E seed \in SeedHands : counts = to_counts(seed)
  /\ called_melds = << >>
  /\ context = new("Ron", East, East)
  /\ InitResults

\* one more tile of the hand is counted (the loop body of to_counts)
AddTile(t) ==
  /\ op = "input"
  /\ Get(counts, t) < 4
  /\ Total(counts) + 3 * Len(called_melds) < MaxTiles
  /\ counts' = Increment(counts, t)
  /\ UNCHANGED <<called_melds, op, aborted, results, context, scored>>

\* one more called meld is recorded
CallMeld(m) ==
  /\ op = "input"
  /\ Total(counts) + 3 * Len(called_melds) + 3 <= MaxTiles
  /\ called_melds' = Append(called_melds, m)
  /\ UNCHANGED <<counts, op, aborted, results, context, scored>>

\* the decomposer as main.rs calls it: decompose_hand without called melds,
\* decompose_hand_with_melds with them.  With more than four called melds the
\* subtraction in melds_needed overflows: a build with overflow checks
\* panics, a build without them wraps.
Decompose ==
  /\ op = "input"
  /\ op' = "decompose"
  /\ \/ /\ Len(called_melds) <= 4
        /\ aborted' = FALSE
        /\ structures' = IF called_melds = << >> THEN decompose_hand(counts)
                         ELSE decompose_hand_with_melds(counts, called_melds)
     \/ /\ Len(called_melds) > 4
        /\ \/ aborted' = FALSE /\ structures' = decompose_hand_with_melds(counts, called_melds)
           \/ aborted' = TRUE /\ structures' = << >>
  /\ UNCHANGED <<counts, called_melds, shanten_result, ukeire_result, context, scored>>

NextHand ==
  \/ \E t \in DrawTiles : AddTile(t)
  \/ \E m \in CallableMelds : CallMeld(m)
  \/ Decompose

SpecHand == Init /\ [][NextHand]_vars

\* calculate_shanten_with_melds on the hand, the called melds passed as their number
CalculateShanten ==
  /\ op = "input"
  /\ op' = "shanten"
  /\ shanten_result' = calculate_shanten_with_melds(counts, Len(called_melds))
  /\ UNCHANGED <<counts, called_melds, aborted, structures, ukeire_result, context, scored>>

\* the meld called in the shanten runs (only the number of called melds matters)
ShantenCallable == {Koutsu(Honor(White), TRUE)}

NextShanten ==
  \/ \E t \in DrawTiles : AddTile(t)
  \/ \E m \in ShantenCallable : CallMeld(m)
  \/ CalculateShanten

SpecShanten == Init /\ [][NextShanten]_vars

\* calculate_ukeire_with_melds on the hand
CalculateUkeire ==
  /\ op = "input"
  /\ op' = "ukeire"
  /\ ukeire_result' = calculate_ukeire_with_melds(counts, Len(called_melds))
  /\ UNCHANGED <<counts, called_melds, aborted, structures, shanten_result, context, scored>>

\* the hands and called melds the ukeire runs start from
UkeireSeeds ==
  { [tiles |-> << M(5), M(5), M(5), M(5), M(6), M(7), M(7), M(8), P(2), P(3) >>,
     called |-> << >>],
    [tiles |-> << M(5), M(6), M(6), M(6), M(6), M(7), M(7), M(7), M(8), M(8), M(9) >>,
     called |-> << >>],
    [tiles |-> << M(1), M(9), P(1), P(9), S(1), S(9), Honor(South), Honor(West),
                  Honor(North), Honor(White), Honor(Green) >>,
     called |-> << >>],
    [tiles |-> << P(2), P(2), P(3), P(3), P(4), P(4), S(6), S(6), Honor(Red), Honor(Red) >>,
     called |-> << >>],
    [tiles |-> << M(6), M(7), Honor(East) >>,
     called |-> << Koutsu(Honor(White), TRUE), Shuntsu(P(1), TRUE) >>] }

\* the tiles added to a hand in the ukeire runs
UkeireDrawTiles == {M(5), M(8), Honor(East), Honor(Red)}

InitUkeire ==
  /\ \E seed \in UkeireSeeds : counts = to_counts(seed.tiles) /\ called_melds = seed.called
  /\ context = new("Ron", East, East)
  /\ InitResults

NextUkeire ==
  \/ \E t \in UkeireDrawTiles : AddTile(t)
  \/ \E m \in ShantenCallable : CallMeld(m)
  \/ CalculateUkeire

SpecUkeire == InitUkeire /\ [][NextUkeire]_vars

\* the winning hands that are scored: the tiles in hand and the called melds
ScoreSeeds ==
  { [tiles |-> KOKUSHI_TILES \o << M(1) >>, called |-> << >>],
    [tiles |-> << Honor(East), Honor(East), Honor(South), Honor(South), Honor(West),
                  Honor(West), Honor(North), Honor(North), Honor(White), Honor(White),
                  Honor(Green), Honor(Green), Honor(Red), Honor(Red) >>,
     called |-> << >>],
    [tiles |-> << M(2), M(2), M(3), M(3), P(5), P(5), P(6), P(6), S(4), S(4), S(7), S(7),
                  S(8), S(8) >>,
     called |-> << >>],
    [tiles |-> << M(1), M(1), M(1), M(3), M(3), M(3), P(5), P(5), P(5), S(7), S(7), S(7),
                  Honor(East), Honor(East) >>,
     called |-> << >>],
    [tiles |-> << Honor(Red), Honor(Red), Honor(Red), M(2), M(3), M(4), P(5), P(5) >>,
     called |-> << Koutsu(Honor(White), TRUE), Koutsu(Honor(Green), TRUE) >>],
    [tiles |-> << M(1), M(2), M(3), M(4), M(5), M(6), P(7), P(8), P(9), S(2), S(3), S(4),
                  P(5), P(5) >>,
     called |-> << >>],
    [tiles |-> << M(9), M(9), P(1), P(1), P(1), P(1), P(2), P(3), S(7), S(8), S(9) >>,
     called |-> << Kan(Honor(South), "Closed") >>],
    [tiles |-> << M(1), M(1), M(1), M(2), M(3), M(4), M(5), M(5), M(6), M(7), M(8), M(9),
                  M(9), M(9) >>,
     called |-> << >>],
    [tiles |-> << M(2), M(3), M(4), M(5), M(6), M(7), S(3), S(4), S(5), S(8), S(8) >>,
     called |-> << Shuntsu(P(1), TRUE) >>],
    [tiles |-> << P(2), P(2), P(2), M(5), M(5), M(5), S(7), S(7), S(7), S(9), S(9) >>,
     called |-> << Shuntsu(P(1), TRUE) >>],
    [tiles |-> << M(1), M(2), M(3), M(3), M(4), M(5), P(7), P(7), P(7), S(2), S(3), S(4),
                  S(9), S(9) >>,
     called |-> << >>],
    [tiles |-> << M(2), M(3), M(4), M(5), M(6), M(7), P(3), P(4), P(5), S(8), S(8) >>,
     called |-> << Shuntsu(P(1), TRUE) >>] }

\* the seat winds a scored hand is played from; the round is East
SeatWinds == {East, South}

\* the dora indicators, ura dora indicators and red fives that are declared
DoraIndicators == << M(4) >>

UraDoraIndicators == << P(4), Honor(East) >>

AkaCounts == {1}

\* main.rs: the hand is open when --open is given or a called meld is open
has_open_melds(melds) == \E i \in 1..Len(melds) : is_open(melds[i])

InitScore ==
  /\ \E seed \in ScoreSeeds :
       /\ counts = to_counts(seed.tiles)
       /\ called_melds = seed.called
       /\ \E win_type \in WinTypes, seat_wind \in SeatWinds :
            context = IF has_open_melds(seed.called) THEN open(new(win_type, East, seat_wind))
                      ELSE new(win_type, East, seat_wind)
  /\ InitResults

\* the least number of builder calls that make the context from GameContext::new
BuilderCalls(self) ==
  Cardinality({f \in {"is_open", "is_double_riichi", "is_ippatsu", "is_rinshan",
                      "is_chankan", "is_last_tile", "is_tenhou", "is_chiihou"} : self[f]})
    + (IF self.is_riichi /\ ~self.is_double_riichi THEN 1 ELSE 0)
    + (IF self.winning_tile # None THEN 1 ELSE 0)
    + (IF self.dora_indicators # << >> THEN 1 ELSE 0)
    + (IF self.ura_dora_indicators # << >> THEN 1 ELSE 0)
    + (IF self.aka_count # 0 THEN 1 ELSE 0)

\* the bound on the builder calls applied to one context
MaxBuilderCalls == 3

\* one builder method of GameContext is applied to the context of the win
Build(built) ==
  /\ op = "decompose"
  /\ ~aborted
  /\ built # context
  /\ BuilderCalls(built) <= MaxBuilderCalls
  /\ context' = built
  /\ UNCHANGED <<counts, called_melds, op, aborted, results, scored>>

\* the tiles of the hand and of the called melds: all_tiles_counts of main.rs
all_tiles_counts(hand, melds) ==
  LET called == MeldsAllTiles(melds)
      held(t) == Cardinality({i \in 1..Len(called) : called[i] = t})
  IN  [t \in DOMAIN hand \cup {called[i] : i \in 1..Len(called)} |-> Get(hand, t) + held(t)]

\* one decomposition is scored: its yaku are detected and its fu calculated
Evaluate(i) ==
  /\ op = "decompose"
  /\ ~aborted
  /\ i \in 1..Len(structures)
  /\ op' = "evaluate"
  /\ structure' = structures[i]
  /\ yaku_result' = detect_yaku_with_context(structures[i],
                       all_tiles_counts(counts, called_melds), context)
  /\ fu_result' = calculate_fu(structures[i], context)
  /\ score_result' = calculate_score(structures[i], yaku_result', context)
  /\ UNCHANGED <<counts, called_melds, aborted, results, context, wait_types, front>>

\* the waits of one decomposition are classified against the winning tile
Classify(i) ==
  /\ op = "decompose"
  /\ ~aborted
  /\ i \in 1..Len(structures)
  /\ context.winning_tile # None
  /\ op' = "classify"
  /\ structure' = structures[i]
  /\ wait_types' = detect_wait_types(structures[i], context.winning_tile)
  /\ UNCHANGED <<counts, called_melds, aborted, results, context, yaku_result, fu_result,
                 score_result, front>>

NextScore ==
  \/ Decompose
  \/ \E t \in DOMAIN counts : Build(with_winning_tile(context, t))
  \/ Build(open(context))
  \/ Build(riichi(context))
  \/ Build(double_riichi(context))
  \/ Build(ippatsu(context))
  \/ Build(rinshan(context))
  \/ Build(chankan(context))
  \/ Build(last_tile(context))
  \/ Build(tenhou(context))
  \/ Build(chiihou(context))
  \/ Build(with_dora(context, DoraIndicators))
  \/ Build(with_ura_dora(context, UraDoraIndicators))
  \/ \E count \in AkaCounts : Build(with_aka(context, count))
  \/ \E i \in 1..4 : Evaluate(i)
  \/ \E i \in 1..4 : Classify(i)

SpecScore == InitScore /\ [][NextScore]_vars

\* the yaku a scored result lists: the yaku below a limit, and the limit patterns
PointsYaku == << Yaku("Riichi"), Yaku("MenzenTsumo"), Yaku("Tanyao"), Yaku("Ryanpeikou"),
                Yaku("Chinitsu") >>

PointsYakuman == << Yaku("Tenhou"), Yaku("Daisangen"), Yaku("Tsuuiisou"),
                   Yaku("SuuankouTanki") >>

\* the lists of yaku that are scored: every selection of the yaku below a
\* limit, and every selection of at least one limit pattern
PointsYakuLists ==
  {SelectSeq(PointsYaku, LAMBDA y : y.name \in names) :
     names \in SUBSET {PointsYaku[i].name : i \in 1..Len(PointsYaku)}}
  \cup
  {SelectSeq(PointsYakuman, LAMBDA y : y.name \in names) :
     names \in (SUBSET {PointsYakuman[i].name : i \in 1..Len(PointsYakuman)}) \ {{}}}

\* the bound on the dora of a scored result
MaxDora == 3

\* the melds a scored decomposition takes, one of each set: a sequence, a
\* triplet or a concealed quad of Man, of Pin, of Sou, and of Sou or a dragon
PointsMelds ==
  << {Shuntsu(M(2), FALSE), Koutsu(M(2), FALSE), Kan(M(1), "Closed")},
     {Shuntsu(P(2), FALSE), Koutsu(P(9), FALSE), Kan(P(5), "Closed")},
     {Shuntsu(S(3), FALSE), Kan(S(9), "Closed")},
     {Shuntsu(S(6), FALSE), Koutsu(Honor(White), FALSE), Kan(Honor(Red), "Closed")} >>

\* the pairs of a scored decomposition
PointsPairs == {P(1), Honor(Green)}

\* the decompositions that are scored: seven pairs, thirteen orphans, and
\* the standard decompositions of PointsMelds and PointsPairs
PointsStructures ==
  {Chiitoitsu(<< M(1), M(2), P(3), P(4), S(5), S(6), Honor(East) >>), Kokushi(M(1))}
  \cup
  {Standard(SortByTile(<< a, b, c, d >>), pair) :
     a \in PointsMelds[1], b \in PointsMelds[2], c \in PointsMelds[3], d \in PointsMelds[4],
     pair \in PointsPairs}

\* the winning tiles of a scored decomposition: none declared, or the tile
\* of its first meld when that is a sequence or a triplet
PointsWinningTiles(scored_structure) ==
  {None} \cup
  (IF scored_structure.kind = "Standard"
   THEN {scored_structure.melds[1].tile} \ (IF scored_structure.melds[1].kind = "Kan"
                                              THEN {scored_structure.melds[1].tile} ELSE {})
   ELSE {})

\* the YakuResult detect_yaku_with_context makes of a closed hand's yaku and dora
YakuResultOf(yaku_list, dora) ==
  [yaku_list |-> yaku_list, total_han |-> SumHan(yaku_list) % 256, dora_count |-> dora,
   regular_dora |-> dora, ura_dora |-> 0, aka_dora |-> 0,
   is_yakuman |-> \E i \in 1..Len(yaku_list) : is_yakuman(yaku_list[i])]

InitPoints ==
  /\ counts = to_counts(<< >>)
  /\ called_melds = << >>
  /\ op = "input"
  /\ aborted = FALSE
  /\ structures = << >>
  /\ shanten_result = NoShanten
  /\ ukeire_result = NoUkeire
  /\ structure \in PointsStructures
  /\ \E win_type \in WinTypes, seat_wind \in SeatWinds,
        winning_tile \in PointsWinningTiles(structure) :
        context = IF winning_tile = None THEN new(win_type, East, seat_wind)
                  ELSE with_winning_tile(new(win_type, East, seat_wind), winning_tile)
  /\ \E yaku_list \in PointsYakuLists, dora \in 0..MaxDora :
        yaku_result = YakuResultOf(yaku_list, dora)
  /\ fu_result = NoFu
  /\ score_result = NoScore
  /\ wait_types = << >>
  /\ outcome = "None"
  /\ input = << >>
  /\ parsed = NoParse
  /\ best_context = context

\* calculate_score: the fu of the decomposition are calculated and scored
\* with the han of the yaku
Score ==
  /\ op = "input"
  /\ op' = "score"
  /\ fu_result' = calculate_fu(structure, context)
  /\ score_result' = calculate_score(structure, yaku_result, context)
  /\ UNCHANGED <<counts, called_melds, aborted, results, context, structure, yaku_result,
                 wait_types, front>>

NextPoints == Score

SpecPoints == InitPoints /\ [][NextPoints]_vars

\* the winning hands whose best interpretation is reported: three runs that
\* are three triplets as well; a hand that is seven pairs and two double
\* runs; an all-sequence hand; a hand with a called sequence and no yaku; a
\* hand with five copies of a tile; a hand of eight tiles; fourteen
\* tiles that form no hand; a hand of eleven
\* tiles with two called triplets; a hand with six copies of a tile over
\* three called triplets; a hand with a called quad; a pair with five called
\* triplets
BestSeeds ==
  { [tiles |-> << M(1), M(1), M(1), M(2), M(2), M(2), M(3), M(3), M(3), P(4), P(5), P(6),
                  S(9), S(9) >>,
     called |-> << >>],
    [tiles |-> << M(2), M(2), M(3), M(3), M(4), M(4), P(5), P(5), P(6), P(6), P(7), P(7),
                  S(8), S(8) >>,
     called |-> << >>],
    [tiles |-> << M(1), M(2), M(3), M(4), M(5), M(6), P(7), P(8), P(9), S(2), S(3), S(4),
                  P(5), P(5) >>,
     called |-> << >>],
    [tiles |-> << M(2), M(3), M(4), M(5), M(6), M(7), S(3), S(4), S(5), S(8), S(8) >>,
     called |-> << Shuntsu(P(1), TRUE) >>],
    [tiles |-> << M(1), M(1), M(1), M(1), M(1), M(4), M(5), M(6), M(7), M(8), M(9), P(2),
                  P(3), P(4) >>,
     called |-> << >>],
    [tiles |-> << M(2), M(3), M(4), M(5), M(6), M(7), M(8), M(8) >>,
     called |-> << >>],
    [tiles |-> << M(1), M(4), M(7), P(2), P(5), P(8), S(3), S(6), S(9), Honor(East),
                  Honor(South), Honor(West), Honor(North), Honor(North) >>,
     called |-> << >>],
    [tiles |-> << M(2), M(3), M(4), M(5), M(6), M(7), S(3), S(4), S(5), S(8), S(8) >>,
     called |-> << Koutsu(Honor(White), TRUE), Koutsu(Honor(Green), TRUE) >>],
    [tiles |-> << M(2), M(3), M(4), S(8), S(8) >>,
     called |-> << Koutsu(Honor(White), TRUE), Koutsu(Honor(White), TRUE),
                   Koutsu(Honor(Green), TRUE) >>],
    [tiles |-> << M(2), M(3), M(4), M(5), M(6), M(7), S(3), S(4), S(5), S(8), S(8) >>,
     called |-> << Kan(Honor(South), "Closed") >>],
    [tiles |-> << Honor(East), Honor(East) >>,
     called |-> << Koutsu(M(1), TRUE), Koutsu(M(9), TRUE), Koutsu(P(1), TRUE),
                   Koutsu(P(9), TRUE), Koutsu(S(1), TRUE) >>] }

InitBest ==
  /\ \E seed \in BestSeeds :
       /\ counts = to_counts(seed.tiles)
       /\ called_melds = seed.called
       /\ \E win_type \in WinTypes, seat_wind \in SeatWinds :
            context = IF has_open_melds(seed.called) THEN open(new(win_type, East, seat_wind))
                      ELSE new(win_type, East, seat_wind)
  /\ InitResults

\* main.rs from the parsed hand on: the hand is validated and decomposed,
\* the decompositions are scored and the first of the sorted results is shown
ReportMain ==
  /\ op = "decompose"
  /\ ~aborted
  /\ op' = "main"
  /\ \/ /\ main_validation(counts, called_melds) # "Ok"
        /\ outcome' = main_validation(counts, called_melds)
        /\ UNCHANGED <<best_context, structure, yaku_result, fu_result, score_result>>
     \/ /\ main_validation(counts, called_melds) = "Ok"
        /\ structures = << >>
        /\ outcome' = "NoValidDecomposition"
        /\ UNCHANGED <<best_context, structure, yaku_result, fu_result, score_result>>
     \/ /\ main_validation(counts, called_melds) = "Ok"
        /\ structures # << >>
        /\ \E table \in {ScoreTable(structures, counts,
                                      all_tiles_counts(counts, called_melds), context)} :
             \E shown \in main_best(table) :
               /\ outcome' = "Score"
               /\ best_context' = shown.context
               /\ structure' = shown.structure
               /\ yaku_result' = shown.yaku
               /\ fu_result' = shown.fu
               /\ score_result' = shown.score
  /\ UNCHANGED <<counts, called_melds, aborted, results, context, wait_types, input, parsed>>

\* score_hand_internal from the parsed hand on: the hand is decomposed; the
\* answer is the best interpretation with a yaku, or the error that there is
\* no decomposition or none with a yaku
ReportWasm ==
  /\ op = "decompose"
  /\ ~aborted
  /\ op' = "wasm"
  /\ \E table \in {ScoreTable(structures, counts, all_tiles_counts(counts, called_melds),
                                context)} :
       \E best \in {score_hand_internal_best(table, context.winning_tile # None)} :
         \/ /\ best = {}
            /\ outcome' = IF structures = << >> THEN "NoValidDecomposition" ELSE "NoYaku"
            /\ UNCHANGED <<best_context, structure, yaku_result, fu_result, score_result>>
         \/ \E shown \in best :
              /\ outcome' = "Score"
              /\ best_context' = shown.context
              /\ structure' = shown.structure
              /\ yaku_result' = shown.yaku
              /\ fu_result' = shown.fu
              /\ score_result' = shown.score
  /\ UNCHANGED <<counts, called_melds, aborted, results, context, wait_types, input, parsed>>

NextBest ==
  \/ Decompose
  \/ \E t \in DOMAIN counts : Build(with_winning_tile(context, t))
  \/ Build(riichi(context))
  \/ Build(tenhou(context))
  \/ Build(with_dora(context, DoraIndicators))
  \/ ReportMain
  \/ ReportWasm

SpecBest == InitBest /\ [][NextBest]_vars

(***************************************************************************)
(* The parser: a hand notation is typed and parsed                         *)
(***************************************************************************)
\* the longest notation that is parsed
MaxInput == 6

\* the characters of the notations: the brackets of a closed meld, digits of
\* an honor and of no honor, the red five, two suit letters and an honor letter
InputChars == {"[", "]", "1", "8", "0", "m", "z", "w"}

InitParse ==
  /\ counts = to_counts(<< >>)
  /\ called_melds = << >>
  /\ context = new("Ron", East, East)
  /\ InitResults

\* one more character of the notation
Type(ch) ==
  /\ op = "input"
  /\ Len(input) < MaxInput
  /\ input' = Append(input, ch)
  /\ UNCHANGED <<counts, called_melds, op, aborted, results, context, structure, yaku_result,
                 fu_result, score_result, wait_types, outcome, parsed, best_context>>

\* parse_hand_with_aka on the notation; a panic aborts the program
Parse ==
  /\ op = "input"
  /\ op' = "parse"
  /\ \E got \in {parse_hand_with_aka(input)} :
       /\ aborted' = (got.kind = "Panic")
       /\ parsed' = IF got.kind = "Panic" THEN parsed ELSE got
  /\ UNCHANGED <<counts, called_melds, results, context, structure, yaku_result,
                 fu_result, score_result, wait_types, outcome, input, best_context>>

NextParse == (\E ch \in InputChars : Type(ch)) \/ Parse

SpecParse == InitParse /\ [][NextParse]_vars

(***************************************************************************)
(* Properties of the decomposer                                            *)
(***************************************************************************)
\* the tiles of one meld
MeldTiles(m) ==
  CASE m.kind = "Shuntsu" ->
         << m.tile, Suited(m.tile.suit, m.tile.value + 1), Suited(m.tile.suit, m.tile.value + 2) >>
    [] m.kind = "Koutsu" -> << m.tile, m.tile, m.tile >>
    [] OTHER -> << m.tile, m.tile, m.tile, m.tile >>

RECURSIVE MeldsTiles(_)
MeldsTiles(melds) ==
  IF melds = << >> THEN << >> ELSE MeldTiles(Head(melds)) \o MeldsTiles(Tail(melds))

\* the tiles a decomposition is made of
StructureTiles(s) ==
  CASE s.kind = "Standard" -> MeldsTiles(s.melds) \o << s.pair, s.pair >>
    [] s.kind = "Chiitoitsu" -> s.pairs \o s.pairs
    [] OTHER -> KOKUSHI_TILES \o << s.pair >>

\* the number of copies of tile t in a list of tiles
CountIn(tiles, t) == Cardinality({i \in 1..Len(tiles) : tiles[i] = t})

\* two lists hold the same elements the same number of times
SameBag(a, b) ==
  /\ Len(a) = Len(b)
  /\ \A i \in 1..Len(a) : CountIn(a, a[i]) = CountIn(b, a[i])

\* C1: every decomposition returned is made of exactly the tiles in hand plus
\* the tiles of the called melds, and a Standard decomposition has exactly
\* four melds and one pair
C1_DecompositionRebuildsHand ==
  (op = "decompose" /\ ~aborted) =>
    \A i \in 1..Len(structures) :
      /\ \A t \in Tile :
           CountIn(StructureTiles(structures[i]), t)
             = Get(counts, t) + CountIn(MeldsTiles(called_melds), t)
      /\ Len(StructureTiles(structures[i])) = Total(counts) + Len(MeldsTiles(called_melds))
      /\ structures[i].kind = "Standard" =>
           (Len(structures[i].melds) = 4 /\ structures[i].pair \in Tile)

\* a Standard decomposition was returned for a hand with a called meld
C1_Witness ==
  /\ op = "decompose"
  /\ ~aborted
  /\ called_melds # << >>
  /\ Len(structures) >= 1
  /\ structures[1].kind = "Standard"

\* the melds that can be cut from the tiles in hand
CandidateMelds(remaining) ==
  {Koutsu(t, FALSE) : t \in {u \in DOMAIN remaining : remaining[u] >= 3}}
    \cup {Shuntsu(t, FALSE) :
            t \in {u \in DOMAIN remaining :
                     /\ ~is_honor(u) /\ u.value <= 7
                     /\ Get(remaining, Suited(u.suit, u.value + 1)) >= 1
                     /\ Get(remaining, Suited(u.suit, u.value + 2)) >= 1}}

\* the lists of n melds that use every tile of remaining exactly once
Partitions(remaining, n) ==
  {f \in [1..n -> CandidateMelds(remaining)] :
     /\ Len(MeldsTiles(f)) = Total(remaining)
     /\ \A t \in DOMAIN remaining : CountIn(MeldsTiles(f), t) = remaining[t]}

\* C2: the decomposer is complete for the Standard shape: with at most four
\* called melds, every pair tile held at least twice together with every
\* partition of the other tiles into the melds still needed is returned
C2_StandardComplete ==
  (op = "decompose" /\ ~aborted /\ Len(called_melds) <= 4) =>
    \A p \in {t \in DOMAIN counts : counts[t] >= 2} :
      \A f \in Partitions(Retain(Decrement(counts, p, 2)), 4 - Len(called_melds)) :
        \E i \in 1..Len(structures) :
          /\ structures[i].kind = "Standard"
          /\ structures[i].pair = p
          /\ SameBag(structures[i].melds, called_melds \o f)

\* a hand with two different partitions for one pair was decomposed, one of
\* the partitions made of sequences only and one holding a triplet
C2_Witness ==
  /\ op = "decompose"
  /\ \E i, j \in 1..Len(structures) :
       /\ structures[i].pair = structures[j].pair
       /\ structures[i].kind = "Standard" /\ structures[j].kind = "Standard"
       /\ \A k \in 1..4 : structures[i].melds[k].kind = "Shuntsu"
       /\ \E k \in 1..4 : structures[j].melds[k].kind = "Koutsu"

\* C3: the list returned never holds two structurally equal decompositions:
\* the same shape, the same pair tile and the same melds whatever their order
C3_NoStructuralDuplicates ==
  (op = "decompose" /\ ~aborted) =>
    \A i, j \in 1..Len(structures) :
      (/\ structures[i].kind = structures[j].kind
       /\ structures[i].pair = structures[j].pair
       /\ SameBag(structures[i].melds, structures[j].melds)
       /\ SameBag(structures[i].pairs, structures[j].pairs)) => i = j

(***************************************************************************)
(* Properties of the shanten calculator and of ukeire                      *)
(***************************************************************************)
\* C4: for a 14-tile hand without called melds the shanten is -1 exactly
\* when the decomposer returns a decomposition
C4_CompleteIffDecomposable ==
  (op = "shanten" /\ called_melds = << >> /\ Total(counts) = 14) =>
    (shanten_result.shanten = -1 <=> decompose_hand(counts) # << >>)

\* the least number of tiles in hand that can be tenpai with k called melds
MinTenpaiTiles(k) == Max(1, 13 - 3 * k)

\* C5: with at most four called melds, a hand short of the tiles needed for
\* tenpai has a shanten of at least the number of tiles it is short of
C5_ShortHandLowerBound ==
  (/\ op = "shanten"
   /\ Len(called_melds) <= 4
   /\ Total(counts) < MinTenpaiTiles(Len(called_melds))) =>
    /\ shanten_result.shanten >= MinTenpaiTiles(Len(called_melds)) - Total(counts)
    /\ shanten_result.shanten >= 1

RECURSIVE SumAvailableOf(_)
SumAvailableOf(entries) ==
  IF entries = {} THEN 0
  ELSE LET e == CHOOSE x \in entries : TRUE
       IN  e.available + SumAvailableOf(entries \ {e})

\* C6: ukeire lists exactly the tiles held fewer than four times whose
\* addition lowers the shanten, each once and with 4 minus the number held,
\* and the total is the sum of these numbers
C6_UkeireExact ==
  op = "ukeire" =>
    LET k == Len(called_melds)
        current == calculate_shanten_with_melds(counts, k).shanten
        improving ==
          {t \in Tile :
             /\ Get(counts, t) < 4
             /\ calculate_shanten_with_melds(Increment(counts, t), k).shanten < current}
        expected == {[tile |-> t, available |-> 4 - Get(counts, t)] : t \in improving}
    IN  /\ {ukeire_result.tiles[i] : i \in 1..Len(ukeire_result.tiles)} = expected
        /\ Len(ukeire_result.tiles) = Cardinality(expected)
        /\ ukeire_result.total_count = SumAvailableOf(expected)

\* ukeire of a hand with called melds and a tile held four times accepted
\* two tiles of which fewer than four are left
C6_Witness ==
  /\ op = "ukeire"
  /\ Len(ukeire_result.tiles) >= 2
  /\ \E i \in 1..Len(ukeire_result.tiles) : ukeire_result.tiles[i].available < 4
  /\ \E t \in DOMAIN counts : counts[t] = 4

(***************************************************************************)
(* Properties of the yaku detector and of the fu calculation               *)
(***************************************************************************)
\* C7: when a yakuman fires for the decomposition that is scored, the yaku
\* list that is returned holds yakuman only
C7_YakumanOnly ==
  (op = "evaluate" /\ yaku_result.is_yakuman) =>
    \A i \in 1..Len(yaku_result.yaku_list) : is_yakuman(yaku_result.yaku_list[i])

\* a closed hand won by self-draw after riichi was scored and got a yakuman:
\* Riichi and Menzen Tsumo would have been pushed had no yakuman fired
C7_Witness ==
  /\ op = "evaluate"
  /\ yaku_result.is_yakuman
  /\ yaku_result.yaku_list # << >>
  /\ context.is_riichi /\ ~context.is_open /\ context.win_type = "Tsumo"

\* C8: a result flagged as a yakuman reports at least 13 han, and the han
\* with dora is the han without
C8_LimitHandHan ==
  (op = "evaluate" /\ yaku_result.is_yakuman) =>
    /\ yaku_result.total_han >= 13
    /\ total_han_with_dora(yaku_result) = yaku_result.total_han

\* a decomposition that qualifies for pinfu with the winning tile of the context
PinfuApplies ==
  /\ context.winning_tile # None
  /\ is_pinfu(structure, context.winning_tile, context)

\* C9: the fu is 25 for seven pairs, 20 for pinfu won by self-draw, and a
\* multiple of 10 in every other case
C9_FuValues ==
  op = "evaluate" =>
    IF structure.kind = "Chiitoitsu" THEN fu_result.total = 25
    ELSE IF PinfuApplies /\ context.win_type = "Tsumo" THEN fu_result.total = 20
    ELSE fu_result.total % 10 = 0

\* a Standard decomposition whose fu add up to a number that is not a
\* multiple of 10 was scored
C9_Witness ==
  /\ op = "evaluate"
  /\ structure.kind = "Standard"
  /\ fu_result.breakdown.raw_total % 10 # 0
  /\ fu_result.total > fu_result.breakdown.raw_total

\* C10 as stated: in an open context the fu is at least 30 whatever the shape
\* of the decomposition
C10_OpenMinimumEveryShape ==
  (op = "evaluate" /\ context.is_open) => fu_result.total >= 30

\* C10: in an open context the fu of a Standard or Kokushi decomposition is at
\* least 30; a Chiitoitsu decomposition keeps its 25 fu
C10_OpenMinimum ==
  (op = "evaluate" /\ context.is_open) =>
    IF structure.kind = "Chiitoitsu" THEN fu_result.total = 25
    ELSE fu_result.total >= 30

\* an open hand whose fu round to less than 30 was scored
C10_Witness ==
  /\ op = "evaluate"
  /\ context.is_open
  /\ structure.kind = "Standard"
  /\ round_up_to_10(fu_result.breakdown.raw_total) < 30
  /\ fu_result.total = 30

\* the tiles of a sequence meld
SequenceTiles(meld) ==
  {Suited(meld.tile.suit, meld.tile.value + d) : d \in 0..2}

\* the winning tile lies in a sequence of the decomposition that was not called
InClosedSequence ==
  \E i \in 1..Len(structure.melds) :
    /\ structure.melds[i].kind = "Shuntsu"
    /\ ~structure.melds[i].open
    /\ context.winning_tile \in SequenceTiles(structure.melds[i])

\* a triplet that was not called and that the discard completed as the only
\* reading of the winning tile
RonTriplet(meld) ==
  /\ meld.kind = "Koutsu" /\ ~meld.open
  /\ context.win_type = "Ron" /\ context.winning_tile = meld.tile
  /\ ~InClosedSequence

\* the fu of a meld by the fu table: 0 for a sequence, 2 / 4 for an open and
\* 4 / 8 for a closed triplet, 8 / 16 and 16 / 32 for a quad
TableMeldFu(meld) ==
  LET outside == IF is_terminal_or_honor(meld.tile) THEN 2 ELSE 1
  IN  CASE meld.kind = "Shuntsu" -> 0
        [] meld.kind = "Koutsu" ->
             IF meld.open \/ RonTriplet(meld) THEN 2 * outside ELSE 4 * outside
        [] OTHER ->
             IF meld.kan_type = "Closed" THEN 16 * outside ELSE 8 * outside

\* C11: on a win by discard a triplet that was not called and whose tile is
\* the winning tile gets the open triplet fu, unless the winning tile also
\* lies in a closed sequence of the decomposition; a called sequence does not
\* count, and the fu of a quad does not depend on the winning tile
C11_RonTripletFu ==
  (op = "evaluate" /\ structure.kind = "Standard") =>
    fu_result.breakdown.melds =
      Total([i \in 1..Len(structure.melds) |-> TableMeldFu(structure.melds[i])])

\* a discard completed a closed triplet whose tile also lies in a closed
\* sequence of the decomposition that was scored
C11_Witness ==
  /\ op = "evaluate"
  /\ structure.kind = "Standard"
  /\ context.win_type = "Ron"
  /\ InClosedSequence
  /\ \E i \in 1..Len(structure.melds) :
       /\ structure.melds[i].kind = "Koutsu" /\ ~structure.melds[i].open
       /\ structure.melds[i].tile = context.winning_tile

\* a meld that counts as a concealed triplet by the rule of the fu
\* computation, for a win by discard on a known tile
CountsAsConcealed(meld) ==
  \/ meld.kind = "Koutsu" /\ ~meld.open /\ ~RonTriplet(meld)
  \/ meld.kind = "Kan" /\ meld.kan_type = "Closed"

\* C12: for the count of concealed triplets on a win by discard, a triplet
\* that was not called and whose tile is the winning tile counts as concealed
\* exactly when the winning tile also lies in a closed sequence of the
\* decomposition, so three-concealed-triplets is reported exactly when three
\* melds count as concealed by the rule of the fu computation
C12_ConcealedTripletRule ==
  (/\ op = "evaluate" /\ structure.kind = "Standard"
   /\ context.win_type = "Ron" /\ context.winning_tile # None
   /\ ~yaku_result.is_yakuman) =>
    ((\E i \in 1..Len(yaku_result.yaku_list) : yaku_result.yaku_list[i].name = "SanAnkou")
       <=> Cardinality({i \in 1..Len(structure.melds) :
                          CountsAsConcealed(structure.melds[i])}) = 3)

\* the yaku list that was returned holds the yaku of this name
Reports(name) ==
  \E i \in 1..Len(yaku_result.yaku_list) : yaku_result.yaku_list[i].name = name

\* C13: for a thirteen-orphans decomposition scored in a closed context with
\* a known winning tile, the thirteen-sided variant is reported exactly when
\* the winning tile is not the pair tile, the plain pattern otherwise, as the
\* wait classifier tells the pair-only wait from the thirteen-sided wait
C13_ThirteenSidedVariant ==
  (/\ op = "evaluate" /\ structure.kind = "Kokushi"
   /\ ~context.is_open /\ context.winning_tile # None) =>
    /\ Reports("Kokushi13Wait") <=> context.winning_tile # structure.pair
    /\ Reports("KokushiMusou") <=> context.winning_tile = structure.pair
    /\ Reports("Kokushi13Wait")
         <=> detect_wait_types(structure, context.winning_tile) = << "Kokushi13" >>

\* the wait kinds the classifier returns for the winning tile of the context
WaitKinds ==
  LET returned == detect_wait_types(structure, context.winning_tile)
  IN  {returned[i] : i \in 1..Len(returned)}

\* the fu of a wait kind by the table of waits
TableWaitFu(kind) == IF kind \in {"Kanchan", "Penchan", "Tanki"} THEN 2 ELSE 0

PinfuConditions ==
  /\ ~context.is_open
  /\ structure.kind = "Standard"
  /\ \A i \in 1..Len(structure.melds) : structure.melds[i].kind = "Shuntsu"
  /\ ~(/\ structure.pair.suit = "Honor"
        /\ structure.pair.value \in {White, Green, Red, context.round_wind,
                                      context.seat_wind})
  /\ context.winning_tile # None
  /\ "Ryanmen" \in WaitKinds

\* C15 as stated: pinfu is awarded exactly when its conditions hold
C15_PinfuIff ==
  op = "evaluate" => (Reports("Pinfu") <=> PinfuConditions)

\* C15: when no yakuman fires pinfu is awarded exactly when its conditions
\* hold, and never without a known winning tile; when a yakuman fires it is
\* not awarded
C15_PinfuIffNoLimit ==
  op = "evaluate" =>
    IF yaku_result.is_yakuman THEN ~Reports("Pinfu")
    ELSE Reports("Pinfu") <=> PinfuConditions

\* a closed hand of four sequences with a pair that scores nothing was
\* scored for a winning tile that completes a two-sided wait, no yakuman fired
\* and pinfu was awarded
C15_Witness ==
  /\ op = "evaluate"
  /\ ~yaku_result.is_yakuman
  /\ PinfuConditions
  /\ Reports("Pinfu")

\* the wait kind the start value s of a sequence and the value w of the
\* winning tile select
SequenceKind(s, w) ==
  IF w = s + 1 THEN "Kanchan"
  ELSE IF (s = 1 /\ w = 3) \/ (s = 7 /\ w = 7) THEN "Penchan"
  ELSE "Ryanmen"

\* the wait kinds one meld contributes for the winning tile w
MeldKinds(m, w) ==
  IF m.kind = "Koutsu" /\ m.tile = w THEN {"Shanpon"}
  ELSE IF m.kind = "Shuntsu" /\ w.suit # "Honor" /\ w.suit = m.tile.suit /\ w.value \in m.tile.value..(m.tile.value + 2)
       THEN {SequenceKind(m.tile.value, w.value)}
  ELSE {}

\* how often a wait kind is due for the classified decomposition
KindsDue(kind) ==
  (IF kind = "Tanki" /\ structure.pair = context.winning_tile THEN 1 ELSE 0)
    + Cardinality({i \in 1..Len(structure.melds) :
                     kind \in MeldKinds(structure.melds[i], context.winning_tile)})

\* C16: for a standard decomposition the classifier returns exactly one wait
\* kind for the pair when it is the winning tile (pair-only), one for every
\* triplet on the winning tile (dual-pair) and one for every sequence that
\* holds the winning tile: closed-gap when w = s+1, edge when (s = 1, w = 3)
\* or (s = 7, w = 7), two-sided otherwise; and nothing else.
C16_WaitKinds ==
  (op = "classify" /\ structure.kind = "Standard") =>
     \A kind \in {"Tanki", "Shanpon", "Kanchan", "Penchan", "Ryanmen", "Kokushi13"} :
        Cardinality({i \in 1..Len(wait_types) : wait_types[i] = kind}) = KindsDue(kind)

\* a sequence 789 completed by its 7 is classified as an edge wait
C16_Witness ==
  /\ op = "classify"
  /\ structure.kind = "Standard"
  /\ \E i \in 1..Len(structure.melds) :
        /\ structure.melds[i].kind = "Shuntsu"
        /\ structure.melds[i].tile.value = 7
        /\ context.winning_tile = structure.melds[i].tile
  /\ \E i \in 1..Len(wait_types) : wait_types[i] = "Penchan"

\* the limit patterns of the scored result
LimitPatterns == SelectSeq(yaku_result.yaku_list, is_yakuman)

\* the han of the scored result: the han of its yaku, with the dora when no
\* limit pattern fired
TotalHan ==
  SumHan(yaku_result.yaku_list) + (IF LimitPatterns = << >> THEN yaku_result.dora_count ELSE 0)

\* the tier of the table for the scored result
TableTier ==
  IF Len(LimitPatterns) >= 2 \/ (LimitPatterns # << >> /\ SumHan(LimitPatterns) >= 26)
  THEN "DoubleYakuman"
  ELSE IF LimitPatterns # << >> \/ TotalHan >= 13 THEN "Yakuman"
  ELSE IF TotalHan \in 11..12 THEN "Sanbaiman"
  ELSE IF TotalHan \in 8..10 THEN "Baiman"
  ELSE IF TotalHan \in 6..7 THEN "Haneman"
  ELSE IF \/ TotalHan = 5
          \/ TotalHan = 4 /\ fu_result.total >= 40
          \/ TotalHan = 3 /\ fu_result.total >= 70 THEN "Mangan"
  ELSE "Normal"

\* C17: the score tier is the tier of the table for the total han, the fu
\* and the limit patterns: Double-limit for two or more limit patterns or
\* limit patterns of 26 or more han, Limit for any limit pattern or 13 or
\* more han, Sanbaiman for 11..12, Baiman for 8..10, Haneman for 6..7, Mangan
\* for 5 han or 4 han with 40 fu or more or 3 han with 70 fu or more, Normal
\* otherwise.
C17_TierTable == op = "score" => score_result.score_level = TableTier

\* a hand of 4 han reaches Mangan by its 40 fu, not by its han
C17_Witness ==
  /\ op = "score"
  /\ TotalHan = 4
  /\ fu_result.total = 40
  /\ score_result.score_level = "Mangan"

\* the base points of the table for a tier
TierPoints(tier) ==
  CASE tier = "Mangan" -> 2000
    [] tier = "Haneman" -> 3000
    [] tier = "Baiman" -> 4000
    [] tier = "Sanbaiman" -> 6000
    [] tier = "Yakuman" -> 8000
    [] tier = "DoubleYakuman" -> 16000

\* C18: the base points are F * 2^(H+2) capped at 2000 in the Normal tier
\* and 2000, 3000, 4000, 6000, 8000, 16000 in the tiers Mangan, Haneman,
\* Baiman, Sanbaiman, Limit and Double-limit.
C18_BasePoints ==
  op = "score" =>
    score_result.basic_points =
      IF score_result.score_level = "Normal"
      THEN (IF fu_result.total * 2 ^ (score_result.han + 2) > 2000 THEN 2000
            ELSE fu_result.total * 2 ^ (score_result.han + 2))
      ELSE TierPoints(score_result.score_level)

\* a Normal hand whose F * 2^(H+2) exceeds 2000 has 2000 base points
C18_Witness ==
  /\ op = "score"
  /\ score_result.score_level = "Normal"
  /\ fu_result.total * 2 ^ (score_result.han + 2) > 2000
  /\ score_result.basic_points = 2000

\* a value rounded up to the next hundred
RoundUp(value) == CHOOSE r \in value..(value + 99) : r % 100 = 0

\* C19: the payments are rounded up to the next 100 per component and the
\* total is the sum of the rounded components: a dealer's self-draw is paid
\* roundup(2*base) by each of three, a non-dealer's self-draw roundup(2*base)
\* by the dealer and roundup(base) by each of two, a dealer's discard win
\* roundup(6*base) and a non-dealer's discard win roundup(4*base).
C19_Payments ==
  op = "score" =>
    LET base == score_result.basic_points
        payment == score_result.payment
    IN  IF context.win_type = "Tsumo"
        THEN IF context.seat_wind = East
             THEN /\ payment.from_non_dealer = << RoundUp(2 * base) >>
                  /\ payment.total = 3 * RoundUp(2 * base)
             ELSE /\ payment.from_dealer = << RoundUp(2 * base) >>
                  /\ payment.from_non_dealer = << RoundUp(base) >>
                  /\ payment.total = RoundUp(2 * base) + 2 * RoundUp(base)
        ELSE /\ payment.from_discarder =
                  << RoundUp((IF context.seat_wind = East THEN 6 ELSE 4) * base) >>
             /\ payment.total = payment.from_discarder[1]

\* a non-dealer's self-draw whose two components are both rounded, so that
\* the total exceeds the rounded sum of the unrounded shares
C19_Witness ==
  /\ op = "score"
  /\ context.win_type = "Tsumo"
  /\ context.seat_wind # East
  /\ score_result.basic_points % 100 # 0
  /\ (2 * score_result.basic_points) % 100 # 0
  /\ score_result.payment.total > RoundUp(4 * score_result.basic_points)

\* C20: the counted-limit flag is true exactly when no limit pattern fired
\* and the han of the yaku and the dora together are 13 or more (the tier is
\* Limit or Double-limit by han accumulation alone); it is false whenever a
\* limit pattern fired and whenever the tier is below Limit.
C20_CountedLimit ==
  op = "score" =>
    /\ score_result.is_counted_yakuman =
          (/\ LimitPatterns = << >>
           /\ SumHan(yaku_result.yaku_list) + yaku_result.dora_count >= 13)
    /\ score_result.is_counted_yakuman =
          (/\ score_result.score_level \in {"Yakuman", "DoubleYakuman"}
           /\ LimitPatterns = << >>)

\* 12 han of yaku and one dora make a counted limit
C20_Witness ==
  /\ op = "score"
  /\ SumHan(yaku_result.yaku_list) = 12
  /\ yaku_result.dora_count = 1
  /\ score_result.score_level = "Yakuman"
  /\ score_result.is_counted_yakuman

\* the decompositions a front end scored for the reported hand: all of them
\* for main.rs, those with a yaku for score_hand_internal
ScoredRows ==
  LET table == ScoreTable(structures, counts, all_tiles_counts(counts, called_melds),
                          context)
  IN  IF op = "main" THEN table ELSE {r \in table : r.yaku.yaku_list # << >>}

\* C21: the interpretation reported as best has the lexicographically
\* greatest (total payment, han, -fu) among all scored decompositions of the
\* hand, so that the reported payment, han and fu do not depend on the order
\* of the decomposition list.
C21_BestIsGreatest ==
  (op \in {"main", "wasm"} /\ outcome = "Score") =>
     \A r \in ScoredRows :
        \/ r.score.payment.total < score_result.payment.total
        \/ /\ r.score.payment.total = score_result.payment.total
           /\ \/ r.score.han < score_result.han
              \/ r.score.han = score_result.han /\ r.fu.total >= fu_result.total

\* C22: no result is produced for a decomposition with zero yaku: what a
\* front end reports as a score lists at least one yaku, and when every
\* decomposition has zero yaku for every candidate winning tile the outcome
\* is the NoYaku error.
C22_NoScoreWithoutYaku ==
  op \in {"main", "wasm"} =>
     /\ outcome = "Score" => yaku_result.yaku_list # << >>
     /\ (/\ outcome \notin {"InvalidHandSize", "TileOverflow", "NoValidDecomposition"}
         /\ \A r \in ScoreTable(structures, counts, all_tiles_counts(counts, called_melds),
                                 context) : r.yaku.yaku_list = << >>) => outcome = "NoYaku"

\* the patterns that require a closed hand
ClosedOnly ==
  {"Riichi", "DoubleRiichi", "Ippatsu", "MenzenTsumo", "Pinfu", "Iipeikou", "Ryanpeikou",
   "Tenhou", "Chiihou", "Suuankou", "SuuankouTanki", "ChuurenPoutou", "JunseiChuurenPoutou",
   "KokushiMusou", "Kokushi13Wait"}

\* the han of a pattern in an open hand: one less than closed for the six
\* patterns that lose a han, the closed value for every other
OpenValue(y) ==
  CASE y.name \in {"SanshokuDoujun", "Ittsu", "Chanta"} -> 1
    [] y.name \in {"Honitsu", "Junchan"} -> 2
    [] y.name = "Chinitsu" -> 5
    [] OTHER -> han(y)

\* C23: in the result of an open hand no pattern that requires a closed hand
\* is listed, and the total han is the sum over the listed patterns of their
\* open values: 1, 1, 1, 2, 2, 5 for mixed-triple-sequence, pure-straight,
\* terminal-or-honor-in-all-groups, half-flush, terminal-in-all-groups and
\* full-flush, the closed value for every other pattern.
C23_OpenHan ==
  (op = "evaluate" /\ context.is_open) =>
     /\ \A i \in 1..Len(yaku_result.yaku_list) : yaku_result.yaku_list[i].name \notin ClosedOnly
     /\ yaku_result.total_han =
          Total([i \in 1..Len(yaku_result.yaku_list) |-> OpenValue(yaku_result.yaku_list[i])])

\* an open hand with a declared riichi lists a pattern at its reduced value
\* together with a pattern that keeps its value
C23_Witness ==
  /\ op = "evaluate"
  /\ context.is_open
  /\ context.is_riichi
  /\ \E i, j \in 1..Len(yaku_result.yaku_list) :
        /\ OpenValue(yaku_result.yaku_list[i]) < han(yaku_result.yaku_list[i])
        /\ yaku_result.yaku_list[j].name \notin {"SanshokuDoujun", "Ittsu", "Chanta",
                                                  "Honitsu", "Junchan", "Chinitsu"}

\* the tile an indicator points at: the next value of the suit, 1 after 9;
\* the next wind, East after North; the next dragon, White after Red
Successor(t) ==
  IF t.suit # "Honor" THEN [suit |-> t.suit, value |-> (t.value % 9) + 1]
  ELSE [suit |-> "Honor",
        value |-> CASE t.value = North -> East
                    [] t.value = Red -> White
                    [] OTHER -> t.value + 1]

\* the copies of the successors of a list of indicators in the tiles in hand
\* and in the called melds
SuccessorCopies(indicators) ==
  Total([i \in 1..Len(indicators) |->
           Get(counts, Successor(indicators[i]))
             + CountIn(MeldsTiles(called_melds), Successor(indicators[i]))])

\* C24: the dora count of a scored hand is the number of copies of the
\* successors of the face-up indicators in the hand and the called melds,
\* plus the red-five count, plus the same number for the underneath
\* indicators if and only if riichi is declared.
C24_DoraCount ==
  op = "evaluate" =>
    count_dora(all_tiles_counts(counts, called_melds), context)
      = SuccessorCopies(context.dora_indicators) + context.aka_count
          + (IF context.is_riichi THEN SuccessorCopies(context.ura_dora_indicators) ELSE 0)

\* an underneath indicator that points at the tiles of a called quad is not
\* counted without riichi
C24_Witness ==
  /\ op = "evaluate"
  /\ ~context.is_riichi
  /\ called_melds # << >>
  /\ \E i \in 1..Len(context.ura_dora_indicators) :
        CountIn(MeldsTiles(called_melds), Successor(context.ura_dora_indicators[i])) > 0
  /\ context.dora_indicators # << >>
  /\ count_dora(all_tiles_counts(counts, called_melds), context)
       = SuccessorCopies(context.dora_indicators)

\* C25: a seven-pairs decomposition is returned if and only if there are no
\* called melds and the hand is exactly seven distinct tiles with two copies
\* each; four copies of one tile are not two pairs.
C25_SevenPairsIff ==
  (op = "decompose" /\ ~aborted) =>
     ((\E i \in 1..Len(structures) : structures[i].kind = "Chiitoitsu")
        <=> /\ called_melds = << >>
            /\ Cardinality({t \in Tile : Get(counts, t) > 0}) = 7
            /\ \A t \in Tile : Get(counts, t) \in {0, 2})

\* a hand of seven pairs is decomposed into seven pairs
C25_Witness ==
  /\ op = "decompose"
  /\ called_melds = << >>
  /\ Cardinality({t \in Tile : Get(counts, t) = 2}) = 7
  /\ \E i \in 1..Len(structures) : structures[i].kind = "Chiitoitsu"

\* the tiles of the request: those in hand and those of the called melds
RequestTiles == SortedKeys(DOMAIN counts) \o MeldsTiles(called_melds)

\* the copies of a tile in hand and in the called melds
RequestCopies(t) == Get(counts, t) + CountIn(MeldsTiles(called_melds), t)

\* the tile total of the request differs from 14 plus one per called quad
SizeMismatch ==
  Total(counts) + Len(MeldsTiles(called_melds))
    # 14 + Cardinality({i \in 1..Len(called_melds) : called_melds[i].kind = "Kan"})

\* some tile occurs more than four times in the request
Overflow == \E i \in 1..Len(RequestTiles) : RequestCopies(RequestTiles[i]) > 4

\* C26: a scoring request whose tile total differs from 14 plus one per
\* called quad is answered with the hand-size error, and one in which a tile
\* occurs more than four times in hand and called melds with a validation
\* error (hand size or tile overflow); neither is answered with a score.
C26_InvalidRejected ==
  op \in {"main", "wasm"} =>
     /\ SizeMismatch => outcome = "InvalidHandSize"
     /\ Overflow => outcome \in {"InvalidHandSize", "TileOverflow"}

\* C27: parsing a hand notation, its bracketed called melds included, ends
\* with a parsed hand or an error value and never aborts the program.
C27_ParseReturns == op = "parse" => ~aborted /\ parsed.kind \in {"Ok", "Err"}

\* how often a wait kind is due for the classified decomposition when only
\* the pair and the melds that are not called open are counted
ClosedKindsDue(kind) ==
  (IF kind = "Tanki" /\ structure.pair = context.winning_tile THEN 1 ELSE 0)
    + Cardinality({i \in 1..Len(structure.melds) :
                     /\ ~structure.melds[i].open
                     /\ kind \in MeldKinds(structure.melds[i], context.winning_tile)})

\* C28: the wait kinds returned for a winning tile come only from groups the
\* winning tile could have completed: a sequence or triplet that was called
\* open and holds the winning tile contributes no wait kind to the result.
C28_ClosedWaitsOnly ==
  (op = "classify" /\ structure.kind = "Standard") =>
     \A kind \in {"Tanki", "Shanpon", "Kanchan", "Penchan", "Ryanmen", "Kokushi13"} :
        Cardinality({i \in 1..Len(wait_types) : wait_types[i] = kind}) = ClosedKindsDue(kind)

\* C29: decomposing a hand with more than four called melds returns the
\* empty list of decompositions and does not abort.
C29_MeldsNeeded ==
  (op = "decompose" /\ Len(called_melds) > 4) => ~aborted /\ structures = << >>

\* the shanten reported for the hand with one more copy of the tile t
ShantenWith(t) == calculate_shanten_with_melds(Increment(counts, t), Len(called_melds)).shanten

\* C30: adding one tile to a hand of at most 13 tiles, the number of called
\* melds unchanged, never lowers the reported shanten by more than 1.
C30_OneTileOneStep ==
  (op = "shanten" /\ Total(counts) <= 13) =>
     \A t \in Tile : Get(counts, t) < 4 => ShantenWith(t) >= shanten_result.shanten - 1

====
